---- MODULE Spec2Model ----
(***************************************************************************)
(* gwt - git worktree manager.  A model of the command handlers (add,      *)
(* list, delete, switch, sync, prune, setup), of WorktreeManager and of    *)
(* GitService, as one process run: a command is invoked in an environment  *)
(* (repository, filesystem, user answers, outcomes of the git binary) and  *)
(* runs to its end.                                                        *)
(*                                                                         *)
(* Strings that the code inspects character by character (paths, branch    *)
(* names, command arguments) are tuples of one-character strings.          *)
(***************************************************************************)
EXTENDS Integers, Sequences, FiniteSets, TLC

\* Bound: the largest number of worktrees a repository holds.
MaxWorktrees == 3

----------------------------------------------------------------------------
(* Strings *)

NoValue == <<>>                 \* undefined / the empty string (both falsy)
MainPath == <<"/", "r">>        \* the primary worktree's directory
MainAlias == <<"/", "r", "/">>  \* another spelling of the same directory
SubDir == <<"/", "r", "/", "s">>    \* a subdirectory of the primary worktree
OtherDir == <<"/", "t">>        \* an existing directory that is no worktree
PlainFile == <<"/", "f">>       \* an existing regular file
MissingPath == <<"/", "x">>     \* an absolute path that does not exist
UnknownName == <<"n">>          \* neither a path nor a branch
HeadName == <<"H", "E", "A", "D">>
Letters == <<"m", "a", "b", "c", "d", "e">>

\* The directory and the branch git gives the i-th worktree of the repository.
WtPath(i) == IF i = 1 THEN MainPath ELSE <<"/", "r", "-", Letters[i]>>
WtBranch(i) == <<Letters[i]>>

\* String.prototype.startsWith('/')
StartsWithSlash(s) == Len(s) > 0 /\ s[1] = "/"

\* What the operating system makes of a path: a trailing separator names the
\* same directory.
RealPath(s) ==
    IF Len(s) > 1 /\ s[Len(s)] = "/" THEN SubSeq(s, 1, Len(s) - 1) ELSE s

----------------------------------------------------------------------------
(* Errors: the class hierarchy of utils/errors *)

GwtErrors ==
    {"GwtError", "GitError", "WorktreeError", "ValidationError",
     "BranchNotFoundError", "WorktreeExistsError", "DetachedHeadError"}

\* error instanceof GwtError
IsGwtError(e) == e \in GwtErrors

\* What a failing collaborator (the git binary through simple-git, a prompt,
\* the filesystem) can reject with: an Error that is no GwtError, or a value
\* that is no Error at all.
Outcomes == {"ok", "Error", "NonError"}

\* error instanceof Error
IsError(e) == e \in GwtErrors \cup {"Error"}

----------------------------------------------------------------------------
(* State *)

VARIABLES
    wts,        \* the repository's worktrees, as git knows them, primary first
    fs,         \* the filesystem: the paths (as the OS resolves them) that exist
    tree,       \* per directory: its working tree, stash and history base
    refs,       \* the refs that resolve in the repository
    debug,      \* process.env.DEBUG is set
    startCwd,   \* the directory the command was invoked from
    cwd,        \* process.cwd()
    cmd,        \* the command line: name, argument, options
    pc,         \* the handler's position
    svcDir,     \* the GitService's baseDir, fixed when it is constructed
    worktrees,  \* the handler's listing
    targetPath, \* delete, switch: the path being resolved
    local,      \* add, sync: the handler's other local variables
    output,     \* what was written, in order, each line with its stream
    exitCode,   \* process.exit's argument, -1 while none was made
    thrown,     \* the error the handler rethrew, "none" if none
    caught,     \* the error that reached the handler's catch block
    calls,      \* the calls made to the git binary, in order
    prompts     \* the prompts shown to the user, in order

vars ==
    <<wts, fs, tree, refs, debug, startCwd, cwd, cmd, pc, svcDir, worktrees,
      targetPath, local, output, exitCode, thrown, caught, calls, prompts>>


----------------------------------------------------------------------------
(* git worktree list --porcelain, and GitService.parseWorktreeList *)

Sha(i) == <<Letters[i], "0", "1", "2", "3", "4", "5", "6", "7", "8">>

Line(tag, val) == [tag |-> tag, val |-> val]

\* The prefix git puts before a branch name in the listing, as one symbol.
RefsHeads == "refs/heads/"

RECURSIVE PorcelainRecords(_)
\* git's listing of the worktrees ws: per worktree a path line, a HEAD line,
\* a branch line or the word detached, the word prunable when its directory
\* is gone, and a blank line.  A line is its keyword and the rest of it.
PorcelainRecords(ws) ==
    IF ws = <<>> THEN <<>>
    ELSE LET w == Head(ws) IN
         <<Line("worktree", w.path), Line("HEAD", w.sha)>>
         \o (IF w.branch = NoValue THEN <<Line("detached", NoValue)>>
             ELSE <<Line("branch", <<RefsHeads>> \o w.branch)>>)
         \o (IF w.prunable THEN <<Line("prunable", NoValue)>> ELSE <<>>)
         \o (IF w.sep THEN <<Line("blank", NoValue)>> ELSE <<>>)
         \o PorcelainRecords(Tail(ws))

\* The listing split at its newlines: the lines of the records, and the
\* empty string after the last newline.  (git ends every record with a blank
\* line; sep = FALSE is a record written without it.)
Porcelain(ws) ==
    PorcelainRecords(ws)
    \o (IF ws = <<>> \/ ws[Len(ws)].sep THEN <<Line("blank", NoValue)>> ELSE <<>>)

\* A parser that keeps the ref as git prints it.
StripRefsHeads_Keep(v) == v

\* .replace('refs/heads/', ''): the first occurrence is taken out
StripRefsHeads(v) ==
    LET H == {i \in 1..Len(v) : v[i] = RefsHeads} IN
    IF H = {} THEN v
    ELSE LET k == CHOOSE i \in H : \A j \in H : i <= j IN
         SubSeq(v, 1, k - 1) \o SubSeq(v, k + 1, Len(v))

\* A parser that flags every record.
IsMainOf_Always(first) == TRUE

\* isMain: isFirstWorktree
IsMainOf(first) == first

\* let current: Partial<WorktreeInfo> = {}
EmptyInfo ==
    [path |-> NoValue, branch |-> NoValue, commit |-> NoValue,
     isCurrent |-> FALSE, isDetached |-> FALSE, isMain |-> FALSE,
     isPrunable |-> FALSE]

\* .substring(0, 7)
Substring7(s) == SubSeq(s, 1, IF Len(s) < 7 THEN Len(s) ELSE 7)

\* One turn of the loop over the lines; st is (worktrees, current,
\* isFirstWorktree).
ParseLine(st, line) ==
    CASE line.tag = "worktree" ->
            [out |-> IF st.cur.path # NoValue THEN Append(st.out, st.cur)
                     ELSE st.out,
             cur |-> [EmptyInfo EXCEPT !.path = line.val,
                                       !.isMain = IsMainOf(st.first)],
             first |-> FALSE]
      [] line.tag = "HEAD" ->
            [st EXCEPT !.cur.commit = Substring7(line.val)]
      [] line.tag = "branch" ->
            [st EXCEPT !.cur.branch = StripRefsHeads(line.val)]
      [] line.tag = "detached" ->
            [st EXCEPT !.cur.isDetached = TRUE, !.cur.branch = HeadName]
      [] line.tag = "prunable" ->
            [st EXCEPT !.cur.isPrunable = TRUE]
      [] line.tag = "blank" ->
            IF st.cur.path # NoValue
            THEN [st EXCEPT !.out = Append(st.out, st.cur), !.cur = EmptyInfo]
            ELSE st
      [] OTHER -> st

RECURSIVE ParseLines(_, _)
ParseLines(lines, st) ==
    IF lines = <<>> THEN st ELSE ParseLines(Tail(lines), ParseLine(st, Head(lines)))

\* GitService.parseWorktreeList, with process.cwd() = dir
parseWorktreeList(lines, dir) ==
    LET st == ParseLines(lines, [out |-> <<>>, cur |-> EmptyInfo, first |-> TRUE])
        all == IF st.cur.path # NoValue THEN Append(st.out, st.cur) ELSE st.out
    IN  [i \in 1..Len(all) |-> [all[i] EXCEPT !.isCurrent = (all[i].path = dir)]]

\* A call of the git binary: the operation, the directory it runs in, its
\* argument.
Call(op, dir, arg) == [op |-> op, dir |-> dir, arg |-> arg]

RECURSIVE ShowCalls(_, _)
\* WorktreeManager.listWorktrees: one commit-message query per record
ShowCalls(ws, dir) ==
    IF ws = <<>> THEN <<>>
    ELSE <<Call("show", dir, Head(ws).commit)>> \o ShowCalls(Tail(ws), dir)

\* WorktreeManager.listWorktrees over GitService.listWorktrees: the listing
\* (empty when the listing call failed), the error, the calls made.
listWorktrees(o, dir, procCwd) ==
    LET ws == parseWorktreeList(Porcelain(wts), procCwd) IN
    IF o = "ok"
    THEN [val |-> ws, err |-> "none",
          calls |-> <<Call("worktree list", dir, NoValue)>> \o ShowCalls(ws, dir)]
    ELSE [val |-> <<>>, err |-> "GitError",
          calls |-> <<Call("worktree list", dir, NoValue)>>]

----------------------------------------------------------------------------
(* Output: utils/logger and console *)

\* The stream a logger method writes to: every method calls console.error.
LoggerStream(lvl) == "stderr"

\* logger.<lvl>(msg): the lines written.  debug writes only under DEBUG.
logger(lvl, msg) ==
    IF lvl = "debug" /\ ~debug THEN <<>>
    ELSE <<[stream |-> LoggerStream(lvl), lvl |-> lvl, msg |-> msg,
            val |-> NoValue]>>

\* console.log(path)
consoleLog(path) ==
    <<[stream |-> "stdout", lvl |-> "console", msg |-> "path", val |-> path]>>

\* console.error(text)
consoleError(msg) ==
    <<[stream |-> "stderr", lvl |-> "console", msg |-> msg, val |-> NoValue]>>

IsOut(l) == l.stream = "stdout"
IsErrorLine(l) == l.lvl = "error"
stdout == SelectSeq(output, IsOut)
errorLines == SelectSeq(output, IsErrorLine)

----------------------------------------------------------------------------
(* The end of a handler *)

\* The handler's catch block: a GwtError is logged (with the stack under
\* DEBUG) and the process exits with 1; anything else is rethrown.  sync
\* adds its advice.
CatchLines(e) ==
    IF IsGwtError(e)
    THEN logger("error", e)
         \o (IF cmd.name = "sync" THEN logger("warn", "resolve conflicts manually")
             ELSE <<>>)
         \o (IF debug THEN logger("debug", "stack") ELSE <<>>)
    ELSE <<>>

\* A handler that logs the domain error and returns.
CatchExit_Never(e) == -1

CatchExit(e) == IF IsGwtError(e) THEN 1 ELSE -1

CatchThrown(e) == IF IsGwtError(e) THEN "none" ELSE e

\* The handler ends: it returned (code -1, err "none"), called
\* process.exit(code), or rethrew err.
End(lines, code, err) ==
    /\ output' = output \o lines
    /\ exitCode' = code
    /\ thrown' = err
    /\ pc' = "done"

\* The handler returns.
Return(lines) == End(lines, -1, "none") /\ UNCHANGED caught

\* The handler calls process.exit(code).
Exit(lines, code) == End(lines, code, "none") /\ UNCHANGED caught

\* An error e is thrown inside the handler's try block.
Throw(lines, e) ==
    /\ caught' = e
    /\ End(lines \o CatchLines(e), CatchExit(e), CatchThrown(e))

----------------------------------------------------------------------------
(* The environment a command is invoked in *)

\* The i-th worktree as git records it: branch is NoValue when detached.
WtRecord(i, detached, prunable) ==
    [path |-> WtPath(i), sha |-> Sha(i),
     branch |-> IF detached THEN NoValue ELSE WtBranch(i),
     prunable |-> prunable, sep |-> TRUE]

\* The repositories: one to MaxWorktrees worktrees, the primary first; any
\* of them detached, any but the primary with its directory gone.
Repos ==
    UNION {{[i \in 1..n |-> WtRecord(i, i \in D, i \in P)] :
               D \in SUBSET (1..n), P \in SUBSET (2..n)} : n \in 1..MaxWorktrees}

\* The directories of the worktrees ws that exist.
WtDirs(ws) == {ws[i].path : i \in {j \in 1..Len(ws) : ~ws[j].prunable}}

\* The filesystem around ws; extra are further entries.
FsOf(ws, extra) == WtDirs(ws) \cup {SubDir, OtherDir, PlainFile} \cup extra

\* The state of a directory's checkout: uncommitted changes, stash entries,
\* the ref its history was last rebased onto.
CleanTree == [dirty |-> FALSE, stash |-> 0, onto |-> NoValue]
DirtyTree == [dirty |-> TRUE, stash |-> 0, onto |-> NoValue]

NoCmd ==
    [name |-> "none", arg |-> NoValue, force |-> FALSE, rebase |-> TRUE,
     env |-> TRUE, base |-> NoValue, path |-> NoValue, from |-> NoValue]

\* No subprocess was run.
NoResult == [error |-> FALSE, status |-> -1]

NoLocal ==
    [head |-> NoValue, branchName |-> NoValue, worktreePath |-> NoValue,
     currentDir |-> NoValue,
     base |-> NoValue, targetBase |-> NoValue, hasChanges |-> FALSE,
     rebased |-> FALSE, err |-> "none",
     ahead |-> 0, behind |-> 0, status |-> "none", failed |-> NoValue,
     result |-> NoResult, rejected |-> "none"]

\* The process before the handler runs.
ProcessInit ==
    /\ cwd = startCwd
    /\ pc = "start"
    /\ svcDir = NoValue
    /\ worktrees = <<>>
    /\ targetPath = NoValue
    /\ local = NoLocal
    /\ output = <<>>
    /\ exitCode = -1
    /\ thrown = "none"
    /\ caught = "none"
    /\ calls = <<>>
    /\ prompts = <<>>

\* fs.existsSync(s)
existsSync(s) == s # NoValue /\ RealPath(s) \in fs

\* fs.statSync(s).isDirectory()
isDirectory(s) == existsSync(s) /\ RealPath(s) # PlainFile

\* worktrees.find((wt) => wt.branch === b): the index of the first, 0 if none
FindByBranch(ws, b) ==
    LET hits == {i \in 1..Len(ws) : ws[i].branch = b} IN
    IF hits = {} THEN 0 ELSE CHOOSE i \in hits : \A j \in hits : i <= j

\* worktrees.find((wt) => wt.path === p)
FindByPath(ws, p) ==
    LET hits == {i \in 1..Len(ws) : ws[i].path = p} IN
    IF hits = {} THEN 0 ELSE CHOOSE i \in hits : \A j \in hits : i <= j

----------------------------------------------------------------------------
(* commands/delete *)

\* What the user may type after delete.
DeleteArgs ==
    {NoValue, MainAlias, OtherDir, MissingPath, UnknownName, HeadName}
    \cup {WtPath(i) : i \in 1..MaxWorktrees}
    \cup {WtBranch(i) : i \in 1..MaxWorktrees}

InvokeDelete ==
    /\ pc = "start"
    /\ \E a \in DeleteArgs, f \in BOOLEAN :
          cmd' = [NoCmd EXCEPT !.name = "delete", !.arg = a, !.force = f]
    /\ pc' = "run"
    /\ UNCHANGED <<wts, fs, tree, refs, debug, startCwd, cwd, svcDir,
                   worktrees, targetPath, local, output, exitCode, thrown,
                   caught, calls, prompts>>

\* A resolution that takes every argument for a path.
ResolveTarget_PathOnly(arg, ws) == [found |-> TRUE, path |-> arg]

\* The argument resolved against the listing: the path to delete, with
\* found = FALSE when it is neither an existing path nor a listed branch.
ResolveTarget(arg, ws) ==
    IF existsSync(arg) THEN [found |-> TRUE, path |-> arg]
    ELSE LET i == FindByBranch(ws, arg) IN
         IF i # 0 THEN [found |-> TRUE, path |-> ws[i].path]
         ELSE [found |-> FALSE, path |-> arg]

\* targetWt?.isMain
IsMainTarget(p, ws) ==
    LET i == FindByPath(ws, p) IN i # 0 /\ ws[i].isMain

\* worktrees.filter((wt) => !wt.isCurrent && !wt.isMain), as paths
Deletable(ws) ==
    LET keep(w) == ~w.isCurrent /\ ~w.isMain
        kept == SelectSeq(ws, keep)
    IN  [i \in 1..Len(kept) |-> kept[i].path]

\* A delete that never asks.
NeedsConfirm_Never(force) == FALSE

\* if (!options.force): the confirmation is asked for
NeedsConfirm(force) == ~force

\* A prompt shown to the user, and how it was answered: "pending", "chosen"
\* (a list), "yes" or "no" (a confirmation), "failed" (the prompt rejected).
ListPrompt(choices) ==
    [type |-> "list", choices |-> choices, answer |-> "pending"]
ConfirmPrompt == [type |-> "confirm", choices |-> <<>>, answer |-> "pending"]

\* The prompts ps with the last one answered.
Answered(ps, a) == [ps EXCEPT ![Len(ps)].answer = a]

\* After the target is known: the confirmation prompt, or straight to the
\* removal.
ToConfirmOrRemove(ps) ==
    IF NeedsConfirm(cmd.force)
    THEN /\ pc' = "confirm"
         /\ prompts' = Append(ps, ConfirmPrompt)
    ELSE /\ pc' = "remove"
         /\ prompts' = ps

\* deleteCommand up to its first prompt: the listing, the resolution of the
\* argument, the refusal of the main worktree, the choices.
DeleteResolve ==
    /\ pc = "run" /\ cmd.name = "delete"
    /\ svcDir' = cwd
    /\ \E o \in Outcomes :
        LET r == listWorktrees(o, cwd, cwd)
            t == ResolveTarget(cmd.arg, r.val)
        IN
        /\ calls' = calls \o r.calls
        /\ worktrees' = r.val
        /\ IF r.err # "none"
           THEN /\ Throw(<<>>, r.err)
                /\ UNCHANGED <<targetPath, prompts>>
           ELSE IF cmd.arg # NoValue
           THEN IF ~t.found
                THEN /\ Exit(logger("error", "Worktree not found"), 1)
                     /\ UNCHANGED <<targetPath, prompts>>
                ELSE IF IsMainTarget(t.path, r.val)
                THEN /\ Exit(logger("error", "Cannot delete main worktree"), 1)
                     /\ targetPath' = t.path
                     /\ UNCHANGED prompts
                ELSE /\ targetPath' = t.path
                     /\ ToConfirmOrRemove(prompts)
                     /\ UNCHANGED <<output, exitCode, thrown, caught>>
           ELSE IF Len(r.val) = 0
           THEN /\ Return(logger("warn", "No worktrees found"))
                /\ UNCHANGED <<targetPath, prompts>>
           ELSE IF Len(Deletable(r.val)) = 0
           THEN /\ Return(logger("warn", "No other worktrees to delete"))
                /\ UNCHANGED <<targetPath, prompts>>
           ELSE /\ pc' = "select"
                /\ prompts' = Append(prompts, ListPrompt(Deletable(r.val)))
                /\ UNCHANGED <<targetPath, output, exitCode, thrown, caught>>
    /\ UNCHANGED <<wts, fs, tree, refs, debug, startCwd, cwd, cmd, local>>

\* The user picks from the list, or the prompt fails.
DeleteSelect ==
    /\ pc = "select" /\ cmd.name = "delete"
    /\ LET choices == prompts[Len(prompts)].choices IN
       \/ \E i \in 1..Len(choices) :
            /\ targetPath' = choices[i]
            /\ ToConfirmOrRemove(Answered(prompts, "chosen"))
            /\ UNCHANGED <<output, exitCode, thrown, caught>>
       \/ /\ Throw(<<>>, "Error")
          /\ prompts' = Answered(prompts, "failed")
          /\ UNCHANGED targetPath
    /\ UNCHANGED <<wts, fs, tree, refs, debug, startCwd, cwd, cmd, svcDir,
                   worktrees, local, calls>>

\* The user answers the confirmation, or the prompt fails.
DeleteConfirm ==
    /\ pc = "confirm" /\ cmd.name = "delete"
    /\ \/ /\ pc' = "remove"
          /\ prompts' = Answered(prompts, "yes")
          /\ UNCHANGED <<output, exitCode, thrown, caught>>
       \/ /\ Return(logger("info", "Deletion cancelled"))
          /\ prompts' = Answered(prompts, "no")
       \/ /\ Throw(<<>>, "Error")
          /\ prompts' = Answered(prompts, "failed")
    /\ UNCHANGED <<wts, fs, tree, refs, debug, startCwd, cwd, cmd, svcDir,
                   worktrees, targetPath, local, calls>>

\* A linked worktree of the repository: what git worktree remove accepts.
IsLinked(p) ==
    \E i \in 2..Len(wts) : wts[i].path = RealPath(p)

\* GitService.removeWorktree: the error it throws when the git call fails
removeWorktreeError(o) == IF IsError(o) THEN "GitError" ELSE o

\* WorktreeManager.deleteWorktree: the error it throws for the gateway's
deleteWorktreeError(e) == IF IsError(e) THEN "WorktreeError" ELSE e

\* await worktreeManager.deleteWorktree(targetPath, options.force)
DeleteRemove ==
    /\ pc = "remove" /\ cmd.name = "delete"
    /\ calls' = Append(calls, Call("worktree remove", svcDir,
                                   [path |-> targetPath, force |-> cmd.force]))
    /\ \E o \in Outcomes :
        /\ o = "ok" => IsLinked(targetPath)
        /\ IF o = "ok"
           THEN Return(logger("success", "Worktree deleted"))
           ELSE Throw(<<>>, deleteWorktreeError(removeWorktreeError(o)))
    /\ UNCHANGED <<wts, fs, tree, refs, debug, startCwd, cwd, cmd, svcDir,
                   worktrees, targetPath, local, prompts>>

NextDelete ==
    \/ InvokeDelete
    \/ DeleteResolve
    \/ DeleteSelect
    \/ DeleteConfirm
    \/ DeleteRemove

\* delete, from any repository, invoked from any of its worktrees or from a
\* subdirectory, with or without a directory entry named like a branch.
InitListing ==
    /\ wts \in Repos
    /\ \E extra \in SUBSET {WtBranch(2)} : fs = FsOf(wts, extra)
    /\ tree = [d \in {MainPath} |-> CleanTree]
    /\ refs = {}
    /\ debug = FALSE
    /\ startCwd \in WtDirs(wts) \cup {SubDir}
    /\ cmd = NoCmd
    /\ ProcessInit

SpecDelete == InitListing /\ [][NextDelete]_vars

----------------------------------------------------------------------------
(* Properties of delete *)

\* The listing the handler gets when the listing call succeeds.
TheListing == parseWorktreeList(Porcelain(wts), startCwd)

IsRemoval(c) == c.op = "worktree remove"
Removals == SelectSeq(calls, IsRemoval)
IsConfirm(q) == q.type = "confirm"
IsList(q) == q.type = "list"
Confirms == SelectSeq(prompts, IsConfirm)
Lists == SelectSeq(prompts, IsList)

\* The argument names the primary worktree: by a path the OS resolves to its
\* directory, or (no such path existing) by the branch it has checked out.
ArgIsPrimary ==
    /\ cmd.arg # NoValue
    /\ \/ existsSync(cmd.arg) /\ RealPath(cmd.arg) = MainPath
       \/ ~existsSync(cmd.arg) /\ FindByBranch(TheListing, cmd.arg) = 1

\* C1: whenever delete's target is the primary worktree (named by a path, by
\* its branch, or picked from the list), no removal is ever called and the
\* command ends with exit code 1, with or without --force; and the list of
\* choices never offers the primary worktree.
C1_PrimaryNeverRemoved ==
    cmd.name = "delete" =>
        /\ (ArgIsPrimary \/ RealPath(targetPath) = MainPath) =>
              /\ Removals = <<>>
              /\ (pc = "done" /\ caught = "none") => exitCode = 1
        /\ \A i \in 1..Len(Lists) : \A j \in 1..Len(Lists[i].choices) :
              Lists[i].choices[j] # MainPath

\* The same with the primary worktree named by the very path of the listing,
\* or by its branch: the cases the handler's comparison recognises.
C1_ListedPrimaryNeverRemoved ==
    (cmd.name = "delete" /\ ArgIsPrimary /\ cmd.arg # MainAlias) =>
        /\ Removals = <<>>
        /\ pc # "remove"
        /\ (pc = "done" /\ caught = "none") => exitCode = 1

\* C8: without --force a removal is called only after the confirmation was
\* answered yes, and a declined confirmation ends the command with no
\* removal; with --force no confirmation is shown and every removal is
\* called with force = TRUE.
C8_ConfirmBeforeRemoval ==
    cmd.name = "delete" =>
        /\ (~cmd.force /\ (Removals # <<>> \/ pc = "remove")) =>
              /\ Len(Confirms) = 1
              /\ Confirms[1].answer = "yes"
        /\ (Confirms # <<>> /\ Confirms[1].answer = "no") =>
              /\ pc = "done"
              /\ Removals = <<>>
              /\ exitCode = -1
        /\ cmd.force => Confirms = <<>>
        /\ \A i \in 1..Len(Removals) : Removals[i].arg.force = cmd.force
        /\ (cmd.force /\ pc = "done" /\ caught = "none" /\ exitCode = -1
            /\ targetPath # NoValue) =>
              Len(Removals) = 1

C8_Witness ==
    /\ cmd.name = "delete" /\ ~cmd.force
    /\ Len(Removals) = 1
    /\ Confirms # <<>> /\ Confirms[1].answer = "yes"

C8_WitnessForce ==
    /\ cmd.name = "delete" /\ cmd.force
    /\ Len(Removals) = 1 /\ Removals[1].arg.force
    /\ prompts = <<>>

\* C9: an argument that is neither an existing path nor a listed branch ends
\* delete with the line 'Worktree not found' and exit code 1, no prompt shown
\* and no removal called; an argument that is no existing path but the branch
\* of a listed worktree makes every removal a removal of that worktree's
\* path, and the removal is called once the main-worktree check and the
\* confirmation let the command through.
C9_ResolveByBranch ==
    (cmd.name = "delete" /\ pc \notin {"start", "run"} /\ cmd.arg # NoValue
     /\ ~existsSync(cmd.arg) /\ caught # "GitError") =>
        LET i == FindByBranch(TheListing, cmd.arg) IN
        IF i = 0
        THEN /\ pc = "done"
             /\ exitCode = 1
             /\ output = logger("error", "Worktree not found")
             /\ prompts = <<>>
             /\ Removals = <<>>
        ELSE /\ \A k \in 1..Len(Removals) :
                    Removals[k].arg.path = TheListing[i].path
             /\ (/\ pc = "done"
                 /\ ~TheListing[i].isMain
                 /\ cmd.force \/ (Confirms # <<>> /\ Confirms[1].answer = "yes"))
                => Len(Removals) = 1

C9_Witness ==
    /\ cmd.name = "delete" /\ cmd.arg = WtBranch(2)
    /\ ~existsSync(cmd.arg)
    /\ Len(Removals) = 1
    /\ Removals[1].arg.path = WtPath(2)

C9_WitnessNotFound ==
    /\ cmd.name = "delete" /\ cmd.arg = UnknownName
    /\ pc = "done" /\ exitCode = 1

----------------------------------------------------------------------------
(* commands/switch *)

SwitchArgs == DeleteArgs \cup {PlainFile}

InvokeSwitch ==
    /\ pc = "start"
    /\ \E a \in SwitchArgs : cmd' = [NoCmd EXCEPT !.name = "switch", !.arg = a]
    /\ pc' = "run"
    /\ UNCHANGED <<wts, fs, tree, refs, debug, startCwd, cwd, svcDir,
                   worktrees, targetPath, local, output, exitCode, thrown,
                   caught, calls, prompts>>

\* A resolution that takes any existing directory, relative ones too, for
\* the target.
switchTarget_AnyDirectory(arg, ws) ==
    LET byPath == FindByPath(ws, arg)
        byBranch == FindByBranch(ws, arg)
    IN  IF byPath # 0 THEN [found |-> TRUE, path |-> ws[byPath].path, info |-> FALSE]
        ELSE IF existsSync(arg) /\ isDirectory(arg)
        THEN [found |-> TRUE, path |-> arg, info |-> FALSE]
        ELSE IF byBranch = 0 THEN [found |-> FALSE, path |-> arg, info |-> FALSE]
        ELSE [found |-> TRUE, path |-> ws[byBranch].path, info |-> TRUE]

\* The argument resolved against the listing: a listed path first, then an
\* existing absolute directory, then the branch of a listed worktree.
switchTarget(arg, ws) ==
    LET byPath == FindByPath(ws, arg)
        pathExists == StartsWithSlash(arg) /\ existsSync(arg) /\ isDirectory(arg)
        byBranch == FindByBranch(ws, arg)
    IN  IF byPath # 0 THEN [found |-> TRUE, path |-> ws[byPath].path, info |-> FALSE]
        ELSE IF pathExists THEN [found |-> TRUE, path |-> arg, info |-> FALSE]
        ELSE IF byBranch = 0 THEN [found |-> FALSE, path |-> arg, info |-> FALSE]
        ELSE [found |-> TRUE, path |-> ws[byBranch].path, info |-> TRUE]

\* worktrees.filter((wt) => !wt.isCurrent), as paths
OtherWorktrees(ws) ==
    LET keep(w) == ~w.isCurrent
        kept == SelectSeq(ws, keep)
    IN  [i \in 1..Len(kept) |-> kept[i].path]

\* switchCommand up to its prompt, or to its end when an argument is given.
SwitchResolve ==
    /\ pc = "run" /\ cmd.name = "switch"
    /\ svcDir' = cwd
    /\ \E o \in Outcomes, tty \in {"ok", "Error"} :
        LET r == listWorktrees(o, cwd, cwd)
            t == switchTarget(cmd.arg, r.val)
        IN
        /\ calls' = calls \o r.calls
        /\ worktrees' = r.val
        /\ IF r.err # "none"
           THEN /\ Throw(<<>>, r.err)
                /\ UNCHANGED <<targetPath, prompts>>
           ELSE IF cmd.arg = NoValue
           THEN IF Len(r.val) = 0
                THEN /\ Return(logger("warn", "No worktrees found"))
                     /\ UNCHANGED <<targetPath, prompts>>
                ELSE IF Len(OtherWorktrees(r.val)) = 0
                THEN /\ Return(logger("warn", "No other worktrees to switch to"))
                     /\ UNCHANGED <<targetPath, prompts>>
                ELSE IF tty # "ok"
                THEN /\ Throw(<<>>, tty)
                     /\ UNCHANGED <<targetPath, prompts>>
                ELSE /\ pc' = "select"
                     /\ prompts' = Append(prompts, ListPrompt(OtherWorktrees(r.val)))
                     /\ UNCHANGED <<targetPath, output, exitCode, thrown, caught>>
           ELSE IF ~t.found
                THEN /\ Exit(logger("error", "No worktree found for branch"), 1)
                     /\ UNCHANGED <<targetPath, prompts>>
                ELSE /\ targetPath' = t.path
                     /\ Return((IF t.info THEN logger("info", "Found worktree for branch")
                                ELSE <<>>) \o consoleLog(t.path))
                     /\ UNCHANGED prompts
    /\ UNCHANGED <<wts, fs, tree, refs, debug, startCwd, cwd, cmd, local>>

\* The user picks from the list, or the prompt fails.
SwitchSelect ==
    /\ pc = "select" /\ cmd.name = "switch"
    /\ LET choices == prompts[Len(prompts)].choices IN
       \/ \E i \in 1..Len(choices) :
            /\ targetPath' = choices[i]
            /\ prompts' = Answered(prompts, "chosen")
            /\ Return(consoleLog(choices[i]))
       \/ /\ Throw(<<>>, "Error")
          /\ prompts' = Answered(prompts, "failed")
          /\ UNCHANGED targetPath
    /\ UNCHANGED <<wts, fs, tree, refs, debug, startCwd, cwd, cmd, svcDir,
                   worktrees, local, calls>>

NextSwitch ==
    \/ InvokeSwitch
    \/ SwitchResolve
    \/ SwitchSelect

SpecSwitch == InitListing /\ [][NextSwitch]_vars

\* C10: switch with an argument that is no listed path, no existing absolute
\* directory and no listed branch exits with code 1 and writes nothing to
\* the output stream; with an argument that is the branch of a listed
\* worktree it writes that worktree's path, and nothing else, to the output
\* stream.
C10_SwitchByBranch ==
    (cmd.name = "switch" /\ pc = "done" /\ cmd.arg # NoValue
     /\ caught # "GitError") =>
        LET i == FindByBranch(TheListing, cmd.arg)
            listed == \E k \in 1..Len(TheListing) : TheListing[k].path = cmd.arg
            absDir == StartsWithSlash(cmd.arg) /\ existsSync(cmd.arg)
                      /\ isDirectory(cmd.arg)
        IN  /\ (~listed /\ ~absDir /\ i = 0) => (exitCode = 1 /\ stdout = <<>>)
            /\ i # 0 => (stdout = consoleLog(TheListing[i].path) /\ exitCode = -1)

C10_Witness ==
    /\ cmd.name = "switch" /\ pc = "done" /\ cmd.arg = WtBranch(2)
    /\ existsSync(cmd.arg)
    /\ stdout = consoleLog(WtPath(2))

C10_WitnessUnresolved ==
    /\ cmd.name = "switch" /\ pc = "done" /\ cmd.arg = PlainFile
    /\ exitCode = 1 /\ stdout = <<>>

----------------------------------------------------------------------------
(* GitService: refs and branches *)

Develop == <<"d", "e", "v">>
Master == <<"m", "a", "s">>
Main == <<"m", "a", "i", "n">>

\* `origin/${name}`
Origin(name) == <<"o", "/">> \o name

\* The directory simple-git runs the git binary in: the baseDir option the
\* GitService was constructed with.
gitCwd == svcDir

\* The worktree a directory belongs to.
TreeOf(dir) == IF dir = SubDir THEN MainPath ELSE dir

\* git rev-parse --verify <name> resolves: a ref of that name exists, or a
\* worktree has that branch checked out.
RevParseOk(name) ==
    \/ name \in refs
    \/ name # NoValue /\ \E i \in 1..Len(wts) : wts[i].branch = name

\* A branchExists that lets the failed lookup out.
branchExistsError_Rethrow(e) == e

\* The inner catch block of branchExists: return false
branchExistsError(e) == "none"

\* GitService.branchExists: the answer and the calls made
branchExists(name) ==
    IF RevParseOk(name)
    THEN [val |-> TRUE, err |-> "none",
          calls |-> <<Call("rev-parse", gitCwd, name)>>]
    ELSE [val |-> RevParseOk(Origin(name)),
          err |-> IF RevParseOk(Origin(name)) THEN "none"
                  ELSE branchExistsError("Error"),
          calls |-> <<Call("rev-parse", gitCwd, name),
                      Call("rev-parse", gitCwd, Origin(name))>>]

\* A probe that starts from main.
BaseCandidates_MainFirst == <<Main, Master, Develop>>

\* const branches = ['develop', 'master', 'main']
BaseCandidates == <<Develop, Master, Main>>

RECURSIVE ProbeBase(_, _)
\* GitService.getBaseBranch's loop over the candidates from the i-th on
ProbeBase(i, done) ==
    IF i > Len(BaseCandidates)
    THEN [val |-> NoValue, err |-> "BranchNotFoundError", calls |-> done]
    ELSE LET r == branchExists(BaseCandidates[i]) IN
         IF r.err # "none"
         THEN [val |-> NoValue, err |-> r.err, calls |-> done \o r.calls]
         ELSE IF r.val
         THEN [val |-> BaseCandidates[i], err |-> "none", calls |-> done \o r.calls]
         ELSE ProbeBase(i + 1, done \o r.calls)

\* GitService.getBaseBranch
getBaseBranch == ProbeBase(1, <<>>)

\* The branch checked out in the worktree of dir, NoValue when detached.
CheckedOut(dir) ==
    LET hits == {i \in 1..Len(wts) : wts[i].path = TreeOf(dir)} IN
    IF hits = {} THEN NoValue ELSE wts[CHOOSE i \in hits : TRUE].branch

\* What git rev-parse --abbrev-ref HEAD prints in dir: the branch, or the
\* word HEAD when no branch is checked out.
RevParseHead(dir) ==
    IF CheckedOut(dir) = NoValue THEN HeadName ELSE CheckedOut(dir)

\* A catch block that turns every failure into the generic error.
currentBranchError_Generic(e) == "GitError"

\* The catch block of getCurrentBranch: the DetachedHeadError passes, any
\* other failure becomes a GitError.
currentBranchError(e) == IF e = "DetachedHeadError" THEN e ELSE "GitError"

\* GitService.getCurrentBranch, o the outcome of the rev-parse call
getCurrentBranch(o) ==
    LET c == <<Call("rev-parse HEAD", gitCwd, NoValue)>>
        head == IF o = "ok" THEN RevParseHead(gitCwd) ELSE NoValue
    IN
    IF o # "ok"
    THEN [val |-> NoValue, head |-> head, err |-> currentBranchError(o), calls |-> c]
    ELSE IF head = HeadName
    THEN [val |-> NoValue, head |-> head,
          err |-> currentBranchError("DetachedHeadError"), calls |-> c]
    ELSE [val |-> head, head |-> head, err |-> "none", calls |-> c]

----------------------------------------------------------------------------
(* GitService.rebaseToBase, step by step; local.base is its argument *)

\* A catch block that passes the error on as it came.
rebaseError_Plain(e) == e

\* The catch block of rebaseToBase: an Error becomes a GitError, any other
\* value is rethrown as it is.
rebaseError(e) == IF IsError(e) THEN "GitError" ELSE e

\* A catch block that tries to bring the stashed changes back.
AfterFailure_Pop(hasChanges) ==
    IF hasChanges THEN "rebase:pop" ELSE "rebase:end"

\* The catch block of rebaseToBase has no stash pop: it throws at once.
AfterFailure(hasChanges) == "rebase:end"

\* A git call of rebaseToBase rejects with o: the catch block ends the
\* operation with the error it makes of it.
RebaseFail(o) ==
    /\ pc' = AfterFailure(local.hasChanges)
    /\ local' = [local EXCEPT !.err = rebaseError(o), !.rejected = o]

\* rebaseToBase ends with error e ("none": it returns).
RebaseEnd(e) ==
    /\ pc' = "rebase:end"
    /\ local' = [local EXCEPT !.err = e]

\* The stash push command with its message.
StashPush == "stash push -m 'gwt auto-stash before rebase'"

\* git stash push in directory d: the changes move to a new stash entry; with
\* no changes there is nothing to save.
stashed(t, d) ==
    IF t[d].dirty
    THEN [t EXCEPT ![d].dirty = FALSE, ![d].stash = @ + 1]
    ELSE t

\* git stash pop in directory d: the newest entry comes back as changes; with
\* no entry the command fails and nothing changes.
popped(t, d) ==
    IF t[d].stash > 0
    THEN [t EXCEPT ![d].dirty = TRUE, ![d].stash = @ - 1]
    ELSE t

\* if (hasChanges): the stash is pushed before the fetch
StashNeeded(hasChanges) == hasChanges

\* A rebase that leaves the stash where it is.
PopNeeded_Never(hasChanges) == FALSE

\* if (hasChanges): the stash is popped after the rebase
PopNeeded(hasChanges) == hasChanges

\* const targetBase = baseBranch || (await this.getBaseBranch())
RebaseBase ==
    /\ pc = "rebase:base"
    /\ IF local.base # NoValue
       THEN /\ local' = [local EXCEPT !.targetBase = local.base]
            /\ pc' = "rebase:status"
            /\ calls' = calls
       ELSE LET r == getBaseBranch IN
            /\ calls' = calls \o r.calls
            /\ IF r.err = "none"
               THEN /\ local' = [local EXCEPT !.targetBase = r.val]
                    /\ pc' = "rebase:status"
               ELSE RebaseEnd(rebaseError(r.err))
    /\ UNCHANGED <<wts, fs, tree, refs, debug, startCwd, cwd, cmd, svcDir,
                   worktrees, targetPath, output, exitCode, thrown, caught,
                   prompts>>

\* const status = await this.git.status(); hasChanges = !status.isClean()
RebaseStatus ==
    /\ pc = "rebase:status"
    /\ calls' = Append(calls, Call("status", gitCwd, NoValue))
    /\ \E o \in Outcomes :
        IF o = "ok"
        THEN LET dirty == tree[TreeOf(gitCwd)].dirty IN
             /\ local' = [local EXCEPT !.hasChanges = dirty]
             /\ pc' = IF StashNeeded(dirty) THEN "rebase:stash" ELSE "rebase:fetch"
        ELSE RebaseFail(o)
    /\ UNCHANGED <<wts, fs, tree, refs, debug, startCwd, cwd, cmd, svcDir,
                   worktrees, targetPath, output, exitCode, thrown, caught,
                   prompts>>

\* await this.git.stash(['push', '-m', 'gwt auto-stash before rebase'])
RebaseStash ==
    /\ pc = "rebase:stash"
    /\ calls' = Append(calls, Call(StashPush, gitCwd, NoValue))
    /\ \E o \in Outcomes :
        IF o = "ok"
        THEN /\ tree' = stashed(tree, TreeOf(gitCwd))
             /\ pc' = "rebase:fetch"
             /\ local' = local
        ELSE /\ RebaseFail(o)
             /\ tree' = tree
    /\ UNCHANGED <<wts, fs, refs, debug, startCwd, cwd, cmd, svcDir,
                   worktrees, targetPath, output, exitCode, thrown, caught,
                   prompts>>

\* await this.git.fetch('origin')
RebaseFetch ==
    /\ pc = "rebase:fetch"
    /\ calls' = Append(calls, Call("fetch", gitCwd, NoValue))
    /\ \E o \in Outcomes :
        IF o = "ok"
        THEN pc' = "rebase:rebase" /\ local' = local
        ELSE RebaseFail(o)
    /\ UNCHANGED <<wts, fs, tree, refs, debug, startCwd, cwd, cmd, svcDir,
                   worktrees, targetPath, output, exitCode, thrown, caught,
                   prompts>>

\* await this.git.rebase([`origin/${targetBase}`])
RebaseRebase ==
    /\ pc = "rebase:rebase"
    /\ calls' = Append(calls, Call("rebase", gitCwd, Origin(local.targetBase)))
    /\ \E o \in Outcomes :
        IF o = "ok"
        THEN /\ tree' = [tree EXCEPT ![TreeOf(gitCwd)].onto = Origin(local.targetBase)]
             /\ IF PopNeeded(local.hasChanges)
                THEN pc' = "rebase:pop" /\ local' = [local EXCEPT !.rebased = TRUE]
                ELSE /\ pc' = "rebase:end"
                     /\ local' = [local EXCEPT !.rebased = TRUE, !.err = "none"]
        ELSE /\ RebaseFail(o)
             /\ tree' = tree
    /\ UNCHANGED <<wts, fs, refs, debug, startCwd, cwd, cmd, svcDir,
                   worktrees, targetPath, output, exitCode, thrown, caught,
                   prompts>>

\* A rebase that lets the failed pop out.
popError_Rethrow(e) == e

\* The catch block around the pop: the error is ignored.
popError(e) == "none"

\* try { await this.git.stash(['pop']) } catch { }
RebasePop ==
    /\ pc = "rebase:pop"
    /\ calls' = Append(calls, Call("stash pop", gitCwd, NoValue))
    /\ \E o \in Outcomes :
        IF o = "ok"
        THEN tree' = popped(tree, TreeOf(gitCwd)) /\ RebaseEnd("none")
        ELSE /\ tree' = tree
             /\ RebaseEnd(IF popError(o) = "none" THEN "none"
                          ELSE rebaseError(popError(o)))
    /\ UNCHANGED <<wts, fs, refs, debug, startCwd, cwd, cmd, svcDir,
                   worktrees, targetPath, output, exitCode, thrown, caught,
                   prompts>>

NextRebase ==
    \/ RebaseBase
    \/ RebaseStatus
    \/ RebaseStash
    \/ RebaseFetch
    \/ RebaseRebase
    \/ RebasePop

----------------------------------------------------------------------------
(* commands/sync *)

InvokeSync ==
    /\ pc = "start"
    /\ \E b \in {NoValue, Main} : cmd' = [NoCmd EXCEPT !.name = "sync", !.base = b]
    /\ svcDir' = cwd
    /\ pc' = "run"
    /\ UNCHANGED <<wts, fs, tree, refs, debug, startCwd, cwd, worktrees,
                   targetPath, local, output, exitCode, thrown, caught, calls,
                   prompts>>

\* syncCommand up to its call of rebaseToBase
SyncStart ==
    /\ pc = "run" /\ cmd.name = "sync"
    /\ UNCHANGED <<wts, fs, tree, refs, debug, startCwd, cwd, cmd, svcDir,
                   worktrees, targetPath, prompts>>
    /\ \E o \in Outcomes :
        LET head == logger("highlight", "Syncing Worktree")
            cur == getCurrentBranch(o)
            base == IF cmd.base # NoValue
                    THEN [val |-> cmd.base, err |-> "none", calls |-> <<>>]
                    ELSE getBaseBranch
        IN
        IF cur.err # "none"
        THEN /\ calls' = calls \o cur.calls
             /\ Throw(head, cur.err)
             /\ local' = [local EXCEPT !.head = cur.head]
        ELSE IF base.err # "none"
        THEN /\ calls' = calls \o cur.calls \o base.calls
             /\ Throw(head \o logger("info", "Current branch"), base.err)
             /\ local' = [local EXCEPT !.head = cur.head]
        ELSE /\ calls' = calls \o cur.calls \o base.calls
             /\ output' = output \o head \o logger("info", "Current branch")
                          \o logger("info", "Base branch")
                          \o logger("step", "Rebasing to latest base branch...")
             /\ local' = [local EXCEPT !.head = cur.head, !.branchName = cur.val,
                                       !.base = base.val]
             /\ pc' = "rebase:base"
             /\ UNCHANGED <<exitCode, thrown, caught>>

\* syncCommand after rebaseToBase
SyncEnd ==
    /\ pc = "rebase:end" /\ cmd.name = "sync"
    /\ IF local.err = "none"
       THEN Return(logger("success", "Sync completed!")
                   \o logger("info", "Branch is now up to date"))
       ELSE Throw(<<>>, local.err)
    /\ UNCHANGED <<wts, fs, tree, refs, debug, startCwd, cwd, cmd, svcDir,
                   worktrees, targetPath, local, calls, prompts>>

NextSync ==
    \/ InvokeSync
    \/ SyncStart
    \/ NextRebase
    \/ SyncEnd

\* The repositories sync and add are tried in: the primary worktree and one
\* more, either of them detached.
SmallRepos ==
    {<<WtRecord(1, d1, FALSE), WtRecord(2, d2, FALSE)>> : d1, d2 \in BOOLEAN}

\* The refs of the repository: any of a local develop, a remote master and a
\* local main.
RefSets == SUBSET {Develop, Origin(Master), Main}

InitSync ==
    /\ wts \in SmallRepos
    /\ fs = FsOf(wts, {})
    /\ startCwd \in WtDirs(wts)
    /\ tree \in [WtDirs(wts) -> {CleanTree, DirtyTree}]
    /\ refs \in RefSets
    /\ debug = FALSE
    /\ cmd = NoCmd
    /\ ProcessInit

SpecSync == InitSync /\ [][NextSync]_vars

----------------------------------------------------------------------------
(* rebaseToBase: the stash discipline *)

\* The positions in the call log of the git command op.
CallsOf(op) == {i \in 1..Len(calls) : calls[i].op = op}

\* A set of positions lies wholly before another.
Before(I, J) == \A i \in I, j \in J : i < j

\* The directory had uncommitted changes when the command started: they are
\* still there or they sit in the stash.
StartedDirty(d) == tree[d].dirty \/ tree[d].stash > 0

\* C5: in rebaseToBase a dirty tree is stashed before the fetch, the fetch
\* precedes the rebase onto origin/<base>, and once the rebase has succeeded
\* a stash pop is attempted; on a clean tree neither a stash push nor a stash
\* pop is ever run.
C5_StashDiscipline ==
    svcDir # NoValue =>
        LET d == TreeOf(svcDir) IN
        /\ Before(CallsOf(StashPush), CallsOf("fetch"))
        /\ Before(CallsOf("fetch"), CallsOf("rebase"))
        /\ Before(CallsOf("rebase"), CallsOf("stash pop"))
        /\ \A i \in CallsOf("rebase") : calls[i].arg = Origin(local.targetBase)
        /\ StartedDirty(d) /\ CallsOf("fetch") # {} => CallsOf(StashPush) # {}
        /\ StartedDirty(d) /\ local.rebased /\ pc # "rebase:pop"
              => CallsOf("stash pop") # {}
        /\ ~StartedDirty(d) => CallsOf(StashPush) = {} /\ CallsOf("stash pop") = {}

\* sync of a dirty worktree ran stash push, fetch, rebase and stash pop.
C5_Witness ==
    /\ cmd.name = "sync" /\ pc = "done" /\ exitCode = -1
    /\ StartedDirty(TreeOf(svcDir))
    /\ CallsOf(StashPush) # {} /\ CallsOf("fetch") # {}
    /\ CallsOf("rebase") # {} /\ CallsOf("stash pop") # {}

\* sync of a clean worktree fetched and rebased without touching the stash.
C5_WitnessClean ==
    /\ cmd.name = "sync" /\ pc = "done" /\ exitCode = -1
    /\ ~StartedDirty(TreeOf(svcDir))
    /\ CallsOf("rebase") # {} /\ CallsOf(StashPush) = {}

----------------------------------------------------------------------------
(* WorktreeManager.createWorktree and commands/add *)

NewBranch == <<"c">>
SlashBranch == <<"f", "/", "c">>
CustomPath == <<"/", "p">>

\* The position of the last "/" of p, 0 if none.
LastSlash(p) ==
    LET S == {i \in 1..Len(p) : p[i] = "/"} IN
    IF S = {} THEN 0 ELSE CHOOSE i \in S : \A j \in S : j <= i

\* path.basename(p)
Basename(p) == SubSeq(p, LastSlash(p) + 1, Len(p))

\* path.dirname(p) of an absolute path
Dirname(p) == IF LastSlash(p) <= 1 THEN <<"/">> ELSE SubSeq(p, 1, LastSlash(p) - 1)

\* path.join(dir, name)
Join(dir, name) == IF dir = <<"/">> THEN dir \o name ELSE dir \o <<"/">> \o name

\* path.resolve(p) in working directory dir
Resolve(p, dir) == IF StartsWithSlash(p) THEN RealPath(p) ELSE Join(dir, p)

\* branchName.replace(/\//g, '-')
generateSafeName(b) == [i \in 1..Len(b) |-> IF b[i] = "/" THEN "-" ELSE b[i]]

\* WorktreeManager.computeWorktreePath in working directory dir
computeWorktreePath(b, customPath, dir) ==
    IF customPath # NoValue
    THEN Resolve(customPath, dir)
    ELSE Join(Dirname(dir), Basename(dir) \o <<"-">> \o generateSafeName(b))

\* logger.plain of a line that shows a path
plainPath(msg, path) ==
    <<[stream |-> LoggerStream("plain"), lvl |-> "plain", msg |-> msg,
       val |-> path]>>

\* git worktree add can succeed: the directory is free, no worktree has the
\* branch checked out, and the start point of a new branch resolves.
WorktreeAddPossible(path, b, createNew, from) ==
    /\ path \notin fs
    /\ \A i \in 1..Len(wts) : wts[i].branch # b
    /\ createNew => RevParseOk(from)

\* The catch block of GitService.createWorktree
createWorktreeError(e) == IF IsError(e) THEN "GitError" ELSE e

\* A gateway that starts every new branch at the base branch.
StartPointOr_Base(startPoint) == FALSE

\* startPoint || ...: the start point given is used
StartPointOr(startPoint) == startPoint # NoValue

\* GitService.createWorktree(path, b, createNew, startPoint), o the outcome
\* of git worktree add: the error, the calls made, the start point of the
\* new branch.
gitCreateWorktree(path, b, createNew, startPoint, o) ==
    LET base == IF createNew /\ ~StartPointOr(startPoint) THEN getBaseBranch
                ELSE [val |-> NoValue, err |-> "none", calls |-> <<>>]
        from == IF ~createNew \/ base.err # "none" THEN NoValue
                ELSE IF StartPointOr(startPoint) THEN startPoint
                ELSE Origin(base.val)
        res == IF o = "ok" /\ ~WorktreeAddPossible(path, b, createNew, from)
               THEN "Error" ELSE o
    IN
    IF base.err # "none"
    THEN [err |-> createWorktreeError(base.err), calls |-> base.calls,
          from |-> NoValue]
    ELSE [err |-> IF res = "ok" THEN "none" ELSE createWorktreeError(res),
          from |-> from,
          calls |-> Append(base.calls,
                           Call(IF createNew THEN "worktree add -b" ELSE "worktree add",
                                gitCwd, path))]

\* The options of gwt add: --base, --path, --from
AddOptions ==
    {<<NoValue, NoValue, NoValue>>, <<Main, NoValue, NoValue>>,
     <<NoValue, CustomPath, NoValue>>, <<NoValue, NoValue, HeadName>>,
     <<NoValue, NoValue, Develop>>}

\* The start point createWorktree passes for a new branch: none without
\* --from; the current branch for --from HEAD; the name given otherwise.
\* cur is the gateway's answer for the current branch.
startPointOf(from, cur) ==
    IF from = NoValue
    THEN [val |-> NoValue, err |-> "none", calls |-> <<>>]
    ELSE IF from = HeadName
    THEN [val |-> cur.val, err |-> cur.err, calls |-> cur.calls]
    ELSE [val |-> from, err |-> "none", calls |-> <<>>]

InvokeAdd ==
    /\ pc = "start"
    /\ \E b \in {NoValue, NewBranch, SlashBranch}, r \in BOOLEAN, e \in BOOLEAN,
          o \in AddOptions :
        cmd' = [NoCmd EXCEPT !.name = "add", !.arg = b, !.rebase = r, !.env = e,
                             !.base = o[1], !.path = o[2], !.from = o[3]]
    /\ svcDir' = cwd
    /\ pc' = "run"
    /\ UNCHANGED <<wts, fs, tree, refs, debug, startCwd, cwd, worktrees,
                   targetPath, local, output, exitCode, thrown, caught, calls,
                   prompts>>

\* createWorktree up to the creation of the worktree
createRejected_Ignored(err) == FALSE

\* await this.git.createWorktree(...): a rejection of the gateway call leaves
\* createWorktree at once, before the success line, the copy and the rebase.
createRejected(err) == err # "none"

AddCreate ==
    /\ pc = "run" /\ cmd.name = "add"
    /\ \E o1 \in Outcomes, o2 \in Outcomes :
        LET head == logger("highlight", "Creating Git Worktree")
            cur == IF cmd.arg # NoValue
                   THEN [val |-> cmd.arg, head |-> NoValue, err |-> "none",
                         calls |-> <<>>]
                   ELSE getCurrentBranch(o1)
            l1 == head \o (IF cmd.arg # NoValue THEN <<>>
                           ELSE logger("step", "No branch name provided"))
            exists == branchExists(cur.val)
            path == computeWorktreePath(cur.val, cmd.path, cwd)
            sp == IF exists.val
                  THEN [val |-> NoValue, err |-> "none", calls |-> <<>>]
                  ELSE startPointOf(cmd.from, getCurrentBranch(o1))
            made == gitCreateWorktree(path, cur.val, ~exists.val, sp.val, o2)
            l2 == l1 \o logger("step", "Creating worktree for branch")
                     \o logger("info", IF exists.val THEN "Using existing branch"
                                       ELSE "Creating new branch")
        IN
        IF cur.err # "none"
        THEN /\ calls' = calls \o cur.calls
             /\ Throw(l1, cur.err)
             /\ UNCHANGED <<wts, fs, tree, refs, local>>
        ELSE IF exists.err # "none"
        THEN /\ calls' = calls \o cur.calls \o exists.calls
             /\ Throw(l1 \o logger("step", "Creating worktree for branch"),
                      exists.err)
             /\ UNCHANGED <<wts, fs, tree, refs, local>>
        ELSE IF sp.err # "none"
        THEN /\ calls' = calls \o cur.calls \o exists.calls \o sp.calls
             /\ Throw(l2, sp.err)
             /\ UNCHANGED <<wts, fs, tree, refs, local>>
        ELSE IF createRejected(made.err)
        THEN /\ calls' = calls \o cur.calls \o exists.calls \o sp.calls
                          \o made.calls
             /\ Throw(l2, made.err)
             /\ UNCHANGED <<wts, fs, tree, refs, local>>
        ELSE /\ calls' = calls \o cur.calls \o exists.calls \o sp.calls
                          \o made.calls
             /\ output' = output \o l2 \o logger("success", "Worktree created")
             /\ IF made.err = "none"
                THEN /\ wts' = Append(wts, [path |-> path,
                                            sha |-> Sha(Len(wts) + 1),
                                            branch |-> cur.val,
                                            prunable |-> FALSE, sep |-> TRUE])
                     /\ fs' = fs \cup {path}
                     /\ tree' = [d \in DOMAIN tree \cup {path} |->
                                    IF d = path
                                    THEN [CleanTree EXCEPT !.onto = made.from]
                                    ELSE tree[d]]
                     /\ refs' = refs \cup {cur.val}
                ELSE UNCHANGED <<wts, fs, tree, refs>>
             /\ local' = [local EXCEPT !.branchName = cur.val,
                                       !.worktreePath = path, !.base = cmd.base]
             /\ pc' = IF cmd.env THEN "add:copy" ELSE "add:rebase"
             /\ UNCHANGED <<exitCode, thrown, caught>>
    /\ UNCHANGED <<debug, startCwd, cwd, cmd, svcDir, worktrees, targetPath,
                   prompts>>

\* const envFiles = ['.env', '.env.local', '.env.development']
EnvFiles == <<".env", ".env.local", ".env.development">>

RECURSIVE CopyLines(_, _)
\* The lines copyEnvFiles logs for the files from the i-th on; st tells of
\* each file whether it is absent, copied, or fails to copy.
CopyLines(st, i) ==
    IF i > Len(EnvFiles) THEN <<>>
    ELSE (IF st[i] = "copied" THEN logger("info", "Copied " \o EnvFiles[i])
          ELSE IF st[i] = "failed" THEN logger("warn", "Failed to copy " \o EnvFiles[i])
          ELSE <<>>)
         \o CopyLines(st, i + 1)

\* WorktreeManager.copyEnvFiles
copyEnvFiles(st) ==
    CopyLines(st, 1)
    \o (IF \A i \in 1..Len(EnvFiles) : st[i] # "copied"
        THEN logger("info", "No .env files found to copy") ELSE <<>>)

\* path.join(dir, file) for the i-th file
EnvPath(dir, i) == Join(dir, <<EnvFiles[i]>>)

\* A loop that ends at the first file that fails to copy.
ContinueAfter_StopOnFailure(status) == status # "failed"

\* The catch block inside the loop: the loop goes on after any file.
ContinueAfter(status) == TRUE

\* What happens to each file when the copies of the files in F fail: a file
\* that is not in the source directory is absent, and one the loop does not
\* come to is skipped.
CopyStatus(src, F) ==
    LET own == [i \in 1..Len(EnvFiles) |->
                   IF EnvPath(src, i) \notin fs THEN "absent"
                   ELSE IF i \in F THEN "failed" ELSE "copied"]
    IN  [i \in 1..Len(EnvFiles) |->
            IF \A j \in 1..(i - 1) : ContinueAfter(own[j]) THEN own[i]
            ELSE "skipped"]

\* if (copyEnv) await this.copyEnvFiles(process.cwd(), worktreePath)
AddCopyEnv ==
    /\ pc = "add:copy"
    /\ \E F \in SUBSET {i \in 1..Len(EnvFiles) : EnvPath(cwd, i) \in fs} :
        LET st == CopyStatus(cwd, F) IN
        /\ output' = output \o copyEnvFiles(st)
        /\ fs' = fs \cup {EnvPath(local.worktreePath, i) :
                              i \in {j \in 1..Len(EnvFiles) : st[j] = "copied"}}
    /\ pc' = "add:rebase"
    /\ UNCHANGED <<wts, tree, refs, debug, startCwd, cwd, cmd, svcDir,
                   worktrees, targetPath, local, exitCode, thrown, caught,
                   calls, prompts>>

\* addCommand after createWorktree has returned path
AddReport(path) ==
    logger("separator", "") \o logger("success", "Worktree is ready!")
    \o plainPath("Path", path) \o logger("plain", "Branch")
    \o logger("separator", "") \o logger("info", "To switch to the worktree, run:")
    \o plainPath("cd", path)

\* A createWorktree without the finally block.
RestoreDir_Stay(currentDir) == cwd

\* finally { process.chdir(currentDir) }
RestoreDir(currentDir) == currentDir

\* A catch block that throws the error on.
AutoRebaseError_Rethrow(e) == e

\* The catch block around the rebase: the error is dropped.
AutoRebaseError(e) == "none"

\* if (autoRebase): the step up to the call of rebaseToBase.  The change
\* into the new worktree can fail; the failure is caught like one of the
\* rebase.
AddChdir ==
    /\ pc = "add:rebase"
    /\ IF ~cmd.rebase
       THEN /\ Return(AddReport(local.worktreePath))
            /\ UNCHANGED <<cwd, local>>
       ELSE LET step == logger("step", "Performing auto-rebase...") IN
            \E o \in {"ok", "Error"} :
                IF o = "ok"
                THEN /\ cwd' = local.worktreePath
                     /\ local' = [local EXCEPT !.currentDir = cwd]
                     /\ output' = output \o step
                     /\ pc' = "rebase:base"
                     /\ UNCHANGED <<exitCode, thrown, caught>>
                ELSE /\ cwd' = RestoreDir(cwd)
                     /\ local' = [local EXCEPT !.currentDir = cwd, !.err = o]
                     /\ IF AutoRebaseError(o) = "none"
                        THEN Return(step \o logger("warn", "Auto-rebase failed")
                                    \o AddReport(local.worktreePath))
                        ELSE Throw(step, AutoRebaseError(o))
    /\ UNCHANGED <<wts, fs, tree, refs, debug, startCwd, cmd, svcDir,
                   worktrees, targetPath, calls, prompts>>

\* createWorktree after rebaseToBase, and the rest of addCommand
AddEnd ==
    /\ pc = "rebase:end" /\ cmd.name = "add"
    /\ cwd' = RestoreDir(local.currentDir)
    /\ IF local.err = "none"
       THEN Return(logger("success", "Auto-rebase completed")
                   \o AddReport(local.worktreePath))
       ELSE IF AutoRebaseError(local.err) = "none"
       THEN Return(logger("warn", "Auto-rebase failed")
                   \o AddReport(local.worktreePath))
       ELSE Throw(<<>>, AutoRebaseError(local.err))
    /\ UNCHANGED <<wts, fs, tree, refs, debug, startCwd, cmd, svcDir,
                   worktrees, targetPath, local, calls, prompts>>

NextAdd ==
    \/ InvokeAdd
    \/ AddCreate
    \/ AddCopyEnv
    \/ AddChdir
    \/ NextRebase
    \/ AddEnd

\* The refs add is tried with: no base branch, a local develop only, or a
\* remote master; the new branch missing, there locally, or on origin only.
AddRefSets == {R \cup X : R \in {{}, {Develop}, {Origin(Master)}},
                          X \in {{}, {NewBranch}, {Origin(NewBranch)}}}

\* The environment files the invoking directory has: none, the second, the
\* first two, all three.
EnvSets == {{}, {2}, {1, 2}, {1, 2, 3}}

InitAdd ==
    /\ wts \in SmallRepos
    /\ startCwd \in WtDirs(wts)
    /\ \E E \in EnvSets : fs = FsOf(wts, {EnvPath(startCwd, i) : i \in E})
    /\ \E t \in {CleanTree, DirtyTree} :
        tree = [d \in WtDirs(wts) |-> IF d = startCwd THEN t ELSE CleanTree]
    /\ refs \in AddRefSets
    /\ debug = FALSE
    /\ cmd = NoCmd
    /\ ProcessInit

SpecAdd == InitAdd /\ [][NextAdd]_vars

----------------------------------------------------------------------------
(* createWorktree: the auto-rebase step *)

\* The git commands of rebaseToBase.
RebaseOps == {"status", StashPush, "fetch", "rebase", "stash pop"}

RebaseCalls == {i \in 1..Len(calls) : calls[i].op \in RebaseOps}

IsRebaseWarning(l) == l.lvl = "warn" /\ l.msg = "Auto-rebase failed"

\* C2: createWorktree leaves the process working directory as it found it,
\* whether the rebase succeeded, failed, or the change of directory itself
\* failed; with auto-rebase disabled the directory is never changed.
C2_CwdRestored ==
    cmd.name = "add" =>
        /\ pc = "done" => cwd = startCwd
        /\ ~cmd.rebase => cwd = startCwd

\* add ended after a failed rebase that ran while the process was in the new
\* worktree, and the process is back where it started.
C2_Witness ==
    /\ cmd.name = "add" /\ pc = "done" /\ cmd.rebase
    /\ local.currentDir = startCwd /\ local.worktreePath # startCwd
    /\ local.err = "GitError" /\ CallsOf("fetch") # {}
    /\ cwd = startCwd

\* C3: with auto-rebase enabled the rebase sequence of add runs in the new
\* worktree, and the invoking worktree keeps its stash and its history.
C3_RebaseInNewWorktree ==
    cmd.name = "add" =>
        /\ \A i \in RebaseCalls : calls[i].dir = local.worktreePath
        /\ tree[TreeOf(startCwd)].stash = 0
        /\ tree[TreeOf(startCwd)].onto = NoValue

\* C4: once the worktree is created, add returns its path and does not exit
\* or throw, whatever the rebase step raised; a failed rebase is logged as one
\* warning.
C4_RebaseFailureIsWarning ==
    cmd.name = "add" /\ pc = "done" /\ local.worktreePath # NoValue =>
        /\ exitCode = -1 /\ thrown = "none"
        /\ output[Len(output)].val = local.worktreePath
        /\ Len(SelectSeq(output, IsRebaseWarning))
              = IF cmd.rebase /\ local.err # "none" THEN 1 ELSE 0

\* add ended normally although the rebase was refused.
C4_Witness ==
    /\ cmd.name = "add" /\ pc = "done" /\ local.err = "GitError"
    /\ CallsOf("rebase") # {} /\ ~local.rebased
    /\ exitCode = -1 /\ thrown = "none"
    /\ Len(SelectSeq(output, IsRebaseWarning)) = 1

\* add ended normally although the rebase step threw a value that is no Error.
C4_WitnessNonError ==
    /\ cmd.name = "add" /\ pc = "done" /\ local.err = "NonError"
    /\ exitCode = -1 /\ thrown = "none"

----------------------------------------------------------------------------
(* commands/list *)

InvokeList ==
    /\ pc = "start"
    /\ cmd' = [NoCmd EXCEPT !.name = "list"]
    /\ pc' = "run"
    /\ UNCHANGED <<wts, fs, tree, refs, debug, startCwd, cwd, svcDir,
                   worktrees, targetPath, local, output, exitCode, thrown,
                   caught, calls, prompts>>

RECURSIVE displayWorktrees(_, _, _)
\* displayWorktree for the worktrees from the i-th on: a line per worktree,
\* and a second one for those in M, whose commit message could be read.
displayWorktrees(ws, M, i) ==
    IF i > Len(ws) THEN <<>>
    ELSE consoleError("worktree")
         \o (IF i \in M THEN consoleError("message") ELSE <<>>)
         \o displayWorktrees(ws, M, i + 1)

\* listCommand
ListRun ==
    /\ pc = "run" /\ cmd.name = "list"
    /\ svcDir' = cwd
    /\ \E o \in Outcomes :
        LET r == listWorktrees(o, cwd, cwd) IN
        /\ calls' = calls \o r.calls
        /\ worktrees' = r.val
        /\ IF r.err # "none" THEN Throw(<<>>, r.err)
           ELSE IF Len(r.val) = 0 THEN Return(logger("warn", "No worktrees found"))
           ELSE \E M \in SUBSET (1..Len(r.val)) :
                    Return(logger("highlight", "Git Worktrees") \o consoleError("")
                           \o displayWorktrees(r.val, M, 1))
    /\ UNCHANGED <<wts, fs, tree, refs, debug, startCwd, cwd, cmd, targetPath,
                   local, prompts>>

NextList ==
    \/ InvokeList
    \/ ListRun

----------------------------------------------------------------------------
(* commands/prune *)

InvokePrune ==
    /\ pc = "start"
    /\ cmd' = [NoCmd EXCEPT !.name = "prune"]
    /\ pc' = "run"
    /\ UNCHANGED <<wts, fs, tree, refs, debug, startCwd, cwd, svcDir,
                   worktrees, targetPath, local, output, exitCode, thrown,
                   caught, calls, prompts>>

\* The catch block of GitService.pruneWorktrees
pruneWorktreesError(o) == IF IsError(o) THEN "GitError" ELSE o

\* git worktree prune -v: the worktrees whose directory is gone are dropped.
Pruned(ws) ==
    LET keep(w) == ~w.prunable IN SelectSeq(ws, keep)

\* pruneCommand
PruneRun ==
    /\ pc = "run" /\ cmd.name = "prune"
    /\ svcDir' = cwd
    /\ calls' = Append(calls, Call("worktree prune", cwd, NoValue))
    /\ \E o \in Outcomes :
        LET step == logger("step", "Checking for manually deleted worktrees...") IN
        IF o # "ok"
        THEN /\ Throw(step, pruneWorktreesError(o))
             /\ wts' = wts
        ELSE /\ wts' = Pruned(wts)
             /\ IF Pruned(wts) # wts
                THEN Return(step \o logger("success", "Cleaned up references")
                            \o consoleError("prune report"))
                ELSE Return(step \o logger("success", "All worktrees are in sync")
                            \o logger("info", "No cleanup needed"))
    /\ UNCHANGED <<fs, tree, refs, debug, startCwd, cwd, cmd, worktrees,
                   targetPath, local, prompts>>

NextPrune ==
    \/ InvokePrune
    \/ PruneRun

----------------------------------------------------------------------------
(* commands/setup *)

InvokeSetup ==
    /\ pc = "start"
    /\ cmd' = [NoCmd EXCEPT !.name = "setup"]
    /\ pc' = "run"
    /\ UNCHANGED <<wts, fs, tree, refs, debug, startCwd, cwd, svcDir,
                   worktrees, targetPath, local, output, exitCode, thrown,
                   caught, calls, prompts>>

\* The largest exit status of the installer.
MaxStatus == 2

\* What spawnSync reports of the installer: it could not be started, or its
\* exit status.
InstallerResults ==
    {[error |-> TRUE, status |-> -1]}
    \cup {[error |-> FALSE, status |-> n] : n \in 0..MaxStatus}

\* A setup that takes every result of the installer for a success.
setupError_Never(r) == "none"

\* The error setupCommand throws on the installer's result r, "none" if none.
setupError(r) ==
    IF r.error THEN "GwtError"
    ELSE IF r.status # 0 THEN "GwtError"
    ELSE "none"

\* setupCommand; the installer writes to the terminal itself.
SetupRun ==
    /\ pc = "run" /\ cmd.name = "setup"
    /\ \E present \in BOOLEAN, r \in InstallerResults :
        LET head == logger("highlight", "gwt Shell Integration Setup")
            run == head \o logger("info", "Running shell integration installer...")
                   \o logger("separator", "")
        IN
        IF ~present THEN Throw(head, "GwtError") /\ calls' = calls
                        /\ local' = local
        ELSE /\ calls' = Append(calls, Call("bash install.sh", cwd, NoValue))
             /\ local' = [local EXCEPT !.result = r]
             /\ IF setupError(r) # "none" THEN Throw(run, setupError(r))
                ELSE Return(run)
    /\ UNCHANGED <<wts, fs, tree, refs, debug, startCwd, cwd, cmd, svcDir,
                   worktrees, targetPath, prompts>>

NextSetup ==
    \/ InvokeSetup
    \/ SetupRun

----------------------------------------------------------------------------
(* All commands *)

\* The repositories the commands are tried in together: the primary worktree
\* and one more, detached or with its directory gone.
FewRepos ==
    {<<WtRecord(1, FALSE, FALSE), WtRecord(2, d, p)>> : d, p \in BOOLEAN}

Init ==
    /\ wts \in FewRepos
    /\ \E extra \in SUBSET {WtBranch(2)} : fs = FsOf(wts, extra)
    /\ startCwd \in WtDirs(wts)
    /\ \E t \in {CleanTree, DirtyTree} :
        tree = [d \in WtDirs(wts) |-> IF d = startCwd THEN t ELSE CleanTree]
    /\ refs \in {{}, {Origin(Master)}}
    /\ debug \in BOOLEAN
    /\ cmd = NoCmd
    /\ ProcessInit

Next ==
    \/ NextAdd
    \/ NextList
    \/ NextDelete
    \/ NextSwitch
    \/ InvokeSync
    \/ SyncStart
    \/ SyncEnd
    \/ NextPrune
    \/ NextSetup

Spec == Init /\ [][Next]_vars

----------------------------------------------------------------------------
(* The streams, and the handler boundary *)

\* The command returned a path: add created its worktree and returned,
\* switch found or was given its target.
FinalPath ==
    IF pc # "done" \/ exitCode # -1 \/ thrown # "none" THEN NoValue
    ELSE IF cmd.name = "add" THEN local.worktreePath
    ELSE IF cmd.name = "switch" THEN targetPath
    ELSE NoValue

\* Every line of the loggers, of the list display and of the prune report is
\* on the error stream; what is on standard output is a path written by
\* console.log.
LogsOnStderr ==
    \A i \in 1..Len(output) :
        IF output[i].lvl = "console" /\ output[i].msg = "path"
        THEN output[i].stream = "stdout"
        ELSE output[i].stream = "stderr"

\* C6: standard output of add and of switch holds the final worktree path,
\* once, when the command succeeded and nothing otherwise; every other line
\* of every command is on the error stream.
C6_OnlyPathOnStdout ==
    /\ LogsOnStderr
    /\ stdout = IF FinalPath # NoValue THEN consoleLog(FinalPath) ELSE <<>>

\* What the handlers do of C6: as C6_OnlyPathOnStdout, but add never writes
\* to standard output.
C6_AsImplemented ==
    /\ LogsOnStderr
    /\ stdout = IF FinalPath # NoValue /\ cmd.name = "switch"
                THEN consoleLog(FinalPath) ELSE <<>>

\* add succeeded and standard output is empty.
C6_WitnessAddSilent ==
    /\ cmd.name = "add" /\ FinalPath # NoValue /\ stdout = <<>>

\* C7: at the end of every handler, a domain error that reached its catch
\* block is logged as the one error line and the process exits with code 1;
\* any other error is thrown on as it is, with no error line and no exit.
C7_HandlerBoundary ==
    pc = "done" /\ caught # "none" =>
        IF IsGwtError(caught)
        THEN /\ errorLines = logger("error", caught)
             /\ exitCode = 1
             /\ thrown = "none"
        ELSE /\ errorLines = <<>>
             /\ exitCode = -1
             /\ thrown = caught

\* sync ended on a failed rebase: one error line, exit code 1.
C7_Witness ==
    /\ cmd.name = "sync" /\ pc = "done" /\ caught = "GitError"
    /\ CallsOf("rebase") # {}
    /\ Len(errorLines) = 1 /\ exitCode = 1

\* delete ended on a value that is no Error: thrown on, no exit.
C7_WitnessRethrown ==
    /\ cmd.name = "delete" /\ pc = "done" /\ caught = "NonError"
    /\ thrown = "NonError" /\ exitCode = -1 /\ errorLines = <<>>

\* Every handler has caught a domain error in some run.
C7_WitnessOf(name) ==
    cmd.name = name /\ pc = "done" /\ IsGwtError(caught) /\ exitCode = 1

----------------------------------------------------------------------------
(* sync on a detached HEAD *)

\* C11: sync asks for the current branch before any other git call; when git
\* answers HEAD (no branch is checked out) the error is the
\* DetachedHeadError, the command exits with code 1, and no base branch is
\* probed and no stash, fetch or rebase is run.
C11_DetachedSync ==
    cmd.name = "sync" =>
        /\ calls # <<>> => calls[1].op = "rev-parse HEAD"
        /\ (pc = "done" /\ local.head = HeadName) =>
              /\ caught = "DetachedHeadError"
              /\ errorLines = logger("error", "DetachedHeadError")
              /\ exitCode = 1
              /\ Len(calls) = 1

\* sync ended in a worktree with no branch checked out.
C11_Witness ==
    /\ cmd.name = "sync" /\ pc = "done"
    /\ CheckedOut(startCwd) = NoValue /\ local.head = HeadName
    /\ caught = "DetachedHeadError" /\ exitCode = 1

----------------------------------------------------------------------------
(* getBaseBranch: the order of the probe *)

IsProbe(c) == c.op = "rev-parse"

\* The names git rev-parse --verify was asked for, in order.
Probes ==
    LET P == SelectSeq(calls, IsProbe) IN [i \in 1..Len(P) |-> P[i].arg]

\* The branch exists, locally or as origin/<name>.
Exists(n) == RevParseOk(n) \/ RevParseOk(Origin(n))

\* The questions that settle one name: the local ref, and origin/<name> when
\* the local ref is missing.
ProbeOf(n) == IF RevParseOk(n) THEN <<n>> ELSE <<n, Origin(n)>>

C12_WitnessNone ==
    /\ cmd.name = "sync" /\ pc = "done" /\ cmd.base = NoValue /\ refs = {}
    /\ caught = "BranchNotFoundError" /\ Len(Probes) = 6

\* sync --base main ran its rebase without a probe.
C12_WitnessExplicit ==
    /\ cmd.name = "sync" /\ pc = "done" /\ cmd.base = Main
    /\ local.rebased /\ Probes = <<>>

----------------------------------------------------------------------------
(* branchExists *)

IsBranchInfo(l) ==
    l.lvl = "info" /\ l.msg \in {"Using existing branch", "Creating new branch"}

\* What createWorktree logged of the branch it looked up.
BranchInfo ==
    LET I == SelectSeq(output, IsBranchInfo) IN [i \in 1..Len(I) |-> I[i].msg]

\* C13: when add looks up a branch, branchExists asks for the local ref and
\* only when that is missing for origin/<name>; it answers true when either
\* resolves (a branch on origin only counts as existing) and false when
\* neither does, without an error: createWorktree goes on to log which of
\* the two it found.
C13_BranchExists ==
    [][(pc = "run" /\ cmd.name = "add" /\ cmd.arg # NoValue) =>
          /\ Len(Probes') >= Len(ProbeOf(cmd.arg))
          /\ SubSeq(Probes', 1, Len(ProbeOf(cmd.arg))) = ProbeOf(cmd.arg)
          /\ BranchInfo' = IF Exists(cmd.arg) THEN <<"Using existing branch">>
                           ELSE <<"Creating new branch">>
          /\ caught' # "Error"]_vars

\* add took a branch that exists on origin only for an existing one, after
\* asking for the local ref and then for the remote one.
C13_Witness ==
    /\ cmd.name = "add" /\ pc = "done" /\ cmd.arg = NewBranch
    /\ Origin(NewBranch) \in refs
    /\ SubSeq(Probes, 1, 2) = <<NewBranch, Origin(NewBranch)>>
    /\ BranchInfo = <<"Using existing branch">>
    /\ CallsOf("worktree add") # {} /\ CallsOf("worktree add -b") = {}

\* add took a branch found nowhere for a new one.
C13_WitnessMissing ==
    /\ cmd.name = "add" /\ pc = "done" /\ cmd.arg = SlashBranch
    /\ BranchInfo = <<"Creating new branch">> /\ exitCode = -1

----------------------------------------------------------------------------
(* The listing as list sees it *)

\* The repositories with their listings written with or without the blank
\* line after each record.
ListRepos ==
    UNION {{[i \in 1..Len(r) |-> [r[i] EXCEPT !.sep = (i \in B)]] :
               B \in SUBSET (1..Len(r))} : r \in Repos}

InitList ==
    /\ wts \in ListRepos
    /\ fs = FsOf(wts, {})
    /\ tree = [d \in {MainPath} |-> CleanTree]
    /\ refs = {}
    /\ debug = FALSE
    /\ startCwd \in WtDirs(wts) \cup {SubDir}
    /\ cmd = NoCmd
    /\ ProcessInit

SpecList == InitList /\ [][NextList]_vars

\* list has its listing.
Listed == cmd.name = "list" /\ pc = "done" /\ caught = "none"

\* C14: in every non-empty listing the record of the first path line, and no
\* other, has isMain = TRUE.
C14_OneMain ==
    (Listed /\ worktrees # <<>>) =>
        /\ worktrees[1].isMain
        /\ worktrees[1].path = wts[1].path
        /\ \A i \in 2..Len(worktrees) : ~worktrees[i].isMain

\* Three records, the first written without a blank line after it.
C14_Witness ==
    /\ Listed /\ Len(worktrees) = 3 /\ ~wts[1].sep
    /\ worktrees[1].isMain /\ ~worktrees[2].isMain /\ ~worktrees[3].isMain

\* C15: after the parse exactly one record has isCurrent = TRUE, the one
\* whose path is the working directory of the GitService.
C15_OneCurrent ==
    (Listed /\ worktrees # <<>>) =>
        /\ Cardinality({i \in 1..Len(worktrees) : worktrees[i].isCurrent}) = 1
        /\ \A i \in 1..Len(worktrees) :
              worktrees[i].isCurrent <=> worktrees[i].path = svcDir

\* What the parse does of C15: a record is current exactly when its path is,
\* character for character, the working directory; there is at most one.
C15_AsImplemented ==
    (Listed /\ worktrees # <<>>) =>
        /\ Cardinality({i \in 1..Len(worktrees) : worktrees[i].isCurrent}) <= 1
        /\ \A i \in 1..Len(worktrees) :
              worktrees[i].isCurrent <=> worktrees[i].path = svcDir

\* list ran in a subdirectory of the primary worktree and no record is
\* current.
C15_WitnessNone ==
    /\ Listed /\ startCwd = SubDir /\ worktrees # <<>>
    /\ \A i \in 1..Len(worktrees) : ~worktrees[i].isCurrent

\* C16: the parse yields one record per path line, in the order of the
\* listing, with or without blank lines between the records: the branch
\* without its refs/heads/ prefix and isDetached = FALSE, or branch HEAD and
\* isDetached = TRUE for a detached record; isPrunable for a prunable one;
\* commit the first 7 characters of the HEAD id.
C16_ParseRecords ==
    Listed =>
        /\ Len(worktrees) = Len(wts)
        /\ \A i \in 1..Len(worktrees) :
              /\ worktrees[i].path = wts[i].path
              /\ worktrees[i].isDetached = (wts[i].branch = NoValue)
              /\ worktrees[i].branch = IF wts[i].branch = NoValue THEN HeadName
                                       ELSE wts[i].branch
              /\ worktrees[i].isPrunable = wts[i].prunable
              /\ Len(worktrees[i].commit) = 7
              /\ worktrees[i].commit = SubSeq(wts[i].sha, 1, 7)

\* Three records with no blank line between them: a branch, a detached and a
\* prunable one.
C16_Witness ==
    /\ Listed /\ Len(worktrees) = 3
    /\ \A i \in 1..3 : ~wts[i].sep
    /\ worktrees[1].branch = WtBranch(1) /\ ~worktrees[1].isDetached
    /\ worktrees[2].branch = HeadName /\ worktrees[2].isDetached
    /\ worktrees[3].isPrunable

----------------------------------------------------------------------------
(* GitService.getRemoteSyncStatus *)

\* The largest count git rev-list answers with.
MaxCount == 2

Counts == 0..MaxCount

\* A classification that reads the pair the other way round.
RemoteSyncStatusOf_Swapped(ahead, behind) ==
    IF ahead = 0 /\ behind = 0 THEN "synced"
    ELSE IF ahead > 0 /\ behind = 0 THEN "behind"
    ELSE IF ahead = 0 /\ behind > 0 THEN "ahead"
    ELSE "diverged"

\* The four returns after the counts are read.
RemoteSyncStatusOf(ahead, behind) ==
    IF ahead = 0 /\ behind = 0 THEN "synced"
    ELSE IF ahead > 0 /\ behind = 0 THEN "ahead"
    ELSE IF ahead = 0 /\ behind > 0 THEN "behind"
    ELSE "diverged"

\* `${branch}...${remoteBranch}`
RevListArg(branch) == branch \o <<".", ".", ".">> \o Origin(branch)

\* git -C path rev-list --left-right --count branch...origin/branch answers
\* only in a directory that exists and when both sides resolve; o is what
\* the binary does otherwise.
RevListOk(o, branch, path) ==
    /\ o = "ok"
    /\ existsSync(path)
    /\ RevParseOk(branch)
    /\ RevParseOk(Origin(branch))

\* The catch block of getRemoteSyncStatus: return NO_REMOTE
remoteSyncError(e) == "none"

\* GitService.getRemoteSyncStatus(branch, path) when the binary answers the
\* count query with o and the counts ahead, behind: the status returned, the
\* error thrown, the calls made, what the count query rejected with.
getRemoteSyncStatus(branch, path, o, ahead, behind) ==
    IF branch = HeadName
    THEN [val |-> "no-remote", err |-> "none", calls |-> <<>>,
          counted |-> FALSE, failed |-> "none"]
    ELSE LET remoteExists == branchExists(Origin(branch))
             revList == <<Call("rev-list", path, RevListArg(branch))>>
         IN
         IF remoteExists.err # "none"
         THEN [val |-> "no-remote", err |-> remoteSyncError(remoteExists.err),
               calls |-> remoteExists.calls, counted |-> FALSE,
               failed |-> "none"]
         ELSE IF ~remoteExists.val
         THEN [val |-> "no-remote", err |-> "none",
               calls |-> remoteExists.calls, counted |-> FALSE,
               failed |-> "none"]
         ELSE IF RevListOk(o, branch, path)
         THEN [val |-> RemoteSyncStatusOf(ahead, behind), err |-> "none",
               calls |-> remoteExists.calls \o revList, counted |-> TRUE,
               failed |-> "none"]
         ELSE LET e == IF o = "ok" THEN "Error" ELSE o IN
              [val |-> "no-remote", err |-> remoteSyncError(e),
               calls |-> remoteExists.calls \o revList, counted |-> FALSE,
               failed |-> e]

\* The branch a record of the listing carries for the worktree w.
BranchOf(w) == IF w.branch = NoValue THEN HeadName ELSE w.branch

\* A GitService is built in the working directory and asked for the status
\* of one of the worktrees.
InvokeRemote ==
    /\ pc = "start"
    /\ cmd' = [NoCmd EXCEPT !.name = "getRemoteSyncStatus"]
    /\ svcDir' = cwd
    /\ \E i \in 1..Len(wts) :
          local' = [NoLocal EXCEPT !.branchName = BranchOf(wts[i]),
                                   !.worktreePath = wts[i].path]
    /\ pc' = "run"
    /\ UNCHANGED <<wts, fs, tree, refs, debug, startCwd, cwd, worktrees,
                   targetPath, output, exitCode, thrown, caught, calls,
                   prompts>>

\* The call: the binary's answers are any of those it can give.
RemoteRun ==
    /\ pc = "run" /\ cmd.name = "getRemoteSyncStatus"
    /\ \E o \in Outcomes, a \in Counts, b \in Counts :
          LET r == getRemoteSyncStatus(local.branchName, local.worktreePath,
                                       o, a, b) IN
          /\ calls' = calls \o r.calls
          /\ local' = [local EXCEPT !.status = r.val, !.err = r.failed,
                                    !.ahead = IF r.counted THEN a ELSE 0,
                                    !.behind = IF r.counted THEN b ELSE 0]
          /\ End(<<>>, -1, r.err)
    /\ UNCHANGED <<wts, fs, tree, refs, debug, startCwd, cwd, cmd, svcDir,
                   worktrees, targetPath, caught, prompts>>

NextRemote == InvokeRemote \/ RemoteRun

\* The remote refs a repository of Repos can have: the remote's branches a
\* and b, and a branch of the remote that is itself called origin/a.
RemoteRefSets ==
    SUBSET {Origin(WtBranch(2)), Origin(WtBranch(3)), Origin(Origin(WtBranch(2)))}

InitRemote ==
    /\ wts \in Repos
    /\ fs = FsOf(wts, {})
    /\ tree = [d \in {MainPath} |-> CleanTree]
    /\ refs \in RemoteRefSets
    /\ debug = FALSE
    /\ startCwd = MainPath
    /\ cmd = NoCmd
    /\ ProcessInit

SpecRemote == InitRemote /\ [][NextRemote]_vars

\* getRemoteSyncStatus has returned or thrown.
RemoteDone == cmd.name = "getRemoteSyncStatus" /\ pc = "done"

\* The count query was issued.
RevListIssued == \E i \in 1..Len(calls) : calls[i].op = "rev-list"

\* The count query was issued and answered.
Counted == RevListIssued /\ local.err = "none"

\* C17: when origin/<branch> resolves and the count query succeeds, the
\* status is a function of (ahead, behind): (0,0) synced, (>0,0) ahead,
\* (0,>0) behind, (>0,>0) diverged; for the branch HEAD the status is
\* no-remote and no query at all is issued.
C17_RemoteSyncClassification ==
    RemoteDone =>
        /\ local.branchName = HeadName =>
              local.status = "no-remote" /\ calls = <<>>
        /\ (RevParseOk(Origin(local.branchName)) /\ Counted) =>
              /\ (local.ahead = 0 /\ local.behind = 0) => local.status = "synced"
              /\ (local.ahead > 0 /\ local.behind = 0) => local.status = "ahead"
              /\ (local.ahead = 0 /\ local.behind > 0) => local.status = "behind"
              /\ (local.ahead > 0 /\ local.behind > 0) => local.status = "diverged"

\* Two commits ahead, none behind.
C17_Witness ==
    /\ RemoteDone /\ Counted
    /\ local.ahead = 2 /\ local.behind = 0 /\ local.status = "ahead"

\* A detached worktree.
C17_WitnessHead ==
    RemoteDone /\ local.branchName = HeadName /\ local.status = "no-remote"

\* C18: getRemoteSyncStatus never throws; when origin/<branch> does not
\* resolve, or a step of the query fails, the status is no-remote; when
\* origin/<branch> does not resolve the count query is not issued.
C18_NeverThrows ==
    RemoteDone =>
        /\ thrown = "none"
        /\ ~RevParseOk(Origin(local.branchName)) =>
              local.status = "no-remote" /\ ~RevListIssued
        /\ local.err # "none" => local.status = "no-remote"

\* What the function does of C18: the count query is spared when neither
\* origin/<branch> nor origin/origin/<branch> resolves.
C18_AsImplemented ==
    RemoteDone =>
        /\ thrown = "none"
        /\ ~RevParseOk(Origin(local.branchName)) => local.status = "no-remote"
        /\ (/\ ~RevParseOk(Origin(local.branchName))
            /\ ~RevParseOk(Origin(Origin(local.branchName)))) => ~RevListIssued
        /\ local.err # "none" => local.status = "no-remote"

\* origin/<branch> does not resolve and the count query was issued.
C18_WitnessQueried ==
    /\ RemoteDone /\ ~RevParseOk(Origin(local.branchName))
    /\ RevListIssued /\ local.status = "no-remote"

----------------------------------------------------------------------------
(* WorktreeManager.listWorktrees with its enrichment: commit subject, commit
   timestamp, dirty flag, remote sync state, and the ordering by recency *)

\* The latest commit timestamp.
MaxTime == 3

Times == 1..MaxTime

\* What the binary answers to the count queries of one listing.
RemoteAnswers ==
    {[o |-> "ok", a |-> 1, b |-> 0], [o |-> "Error", a |-> 0, b |-> 0]}

\* An enrichment that asks for every record.
NeedsRemoteSync_All(wt) == TRUE

\* The remote sync state is computed only for records that are neither
\* primary nor detached.
NeedsRemoteSync(wt) == ~wt.isMain /\ ~wt.isDetached

\* The remote sync state of the record wt, and the calls made for it: the
\* call of the gateway itself, then the calls the gateway makes.
RemoteSyncOf(wt, q) ==
    IF NeedsRemoteSync(wt)
    THEN LET r == getRemoteSyncStatus(wt.branch, wt.path, q.o, q.a, q.b) IN
         [val |-> r.val,
          calls |-> <<Call("getRemoteSyncStatus", wt.path, wt.branch)>> \o r.calls]
    ELSE [val |-> "no-remote", calls |-> <<>>]

\* The commit-date lookup and the dirty check of the record wt answer: its
\* directory exists, and it is not the record at f, for which the binary
\* fails.
LookupOk(wt, f) ==
    existsSync(wt.path) /\ TreeOf(wt.path) \in DOMAIN tree /\ wt.path # f

\* An enrichment that lets the failed query out.
enrichError_Rethrow(e) == e

\* A failed enrichment query degrades that field to its fallback.
enrichError(e) == "none"

\* The dirty flag of the record wt; FALSE when it cannot be read.
HasChangesOf(wt, f) ==
    IF LookupOk(wt, f) THEN tree[TreeOf(wt.path)].dirty ELSE FALSE

\* The record wt with its enriched fields; t is its commit timestamp.  A
\* record whose timestamp cannot be read has none (0) and the relative time
\* unknown.
Enriched(wt, t, q, f) ==
    [path |-> wt.path, branch |-> wt.branch, commit |-> wt.commit,
     isCurrent |-> wt.isCurrent, isDetached |-> wt.isDetached,
     isMain |-> wt.isMain, isPrunable |-> wt.isPrunable,
     lastCommitDate |-> IF LookupOk(wt, f) THEN t ELSE 0,
     lastCommitDateRelative |-> IF LookupOk(wt, f) THEN "ago" ELSE "unknown",
     hasChanges |-> HasChangesOf(wt, f),
     remoteSyncStatus |-> RemoteSyncOf(wt, q).val]

RECURSIVE EnrichCalls(_, _, _)
\* The calls of the enrichment for the records from the i-th on: subject,
\* timestamp, dirty flag, remote sync state.
EnrichCalls(ws, q, i) ==
    IF i > Len(ws) THEN <<>>
    ELSE <<Call("show", gitCwd, ws[i].commit),
           Call("log", ws[i].path, ws[i].commit),
           Call("status", ws[i].path, NoValue)>>
         \o RemoteSyncOf(ws[i], q).calls
         \o EnrichCalls(ws, q, i + 1)

\* An ordering that puts a record before those of its own timestamp.
NotOlder_Strictly(a, b) == a.lastCommitDate > b.lastCommitDate

\* a stays before b: it was committed no earlier.
NotOlder(a, b) == a.lastCommitDate >= b.lastCommitDate

RECURSIVE InsertByDate(_, _)
\* x put into the ordered s, after every record that stays before it.
InsertByDate(s, x) ==
    IF s = <<>> THEN <<x>>
    ELSE IF NotOlder(Head(s), x) THEN <<Head(s)>> \o InsertByDate(Tail(s), x)
    ELSE <<x>> \o s

RECURSIVE SortByDate(_, _)
\* The records ws put one by one, in listing order, into the ordered acc.
SortByDate(ws, acc) ==
    IF ws = <<>> THEN acc
    ELSE SortByDate(Tail(ws), InsertByDate(acc, Head(ws)))

\* WorktreeManager.listWorktrees: the gateway's listing, enriched and
\* ordered; T gives the commit timestamps, q the answers to the count
\* queries, f the path of the record whose lookups fail.
enrichedListWorktrees(o, T, q, f) ==
    LET ws == parseWorktreeList(Porcelain(wts), cwd)
        e == IF \E i \in 1..Len(ws) : ~LookupOk(ws[i], f)
             THEN enrichError("GitError") ELSE "none"
    IN
    IF o = "ok"
    THEN [val |-> IF e # "none" THEN <<>>
                  ELSE SortByDate([i \in 1..Len(ws) |->
                                      Enriched(ws[i], T[i], q, f)], <<>>),
          err |-> e,
          calls |-> <<Call("worktree list", gitCwd, NoValue)>>
                    \o EnrichCalls(ws, q, 1)]
    ELSE [val |-> <<>>, err |-> "GitError",
          calls |-> <<Call("worktree list", gitCwd, NoValue)>>]

\* A WorktreeManager is built in the working directory.
InvokeEnrich ==
    /\ pc = "start"
    /\ cmd' = [NoCmd EXCEPT !.name = "listWorktrees"]
    /\ svcDir' = cwd
    /\ pc' = "run"
    /\ UNCHANGED <<wts, fs, tree, refs, debug, startCwd, cwd, worktrees,
                   targetPath, local, output, exitCode, thrown, caught, calls,
                   prompts>>

\* The call of listWorktrees.
EnrichRun ==
    /\ pc = "run" /\ cmd.name = "listWorktrees"
    /\ \E o \in Outcomes, T \in [1..Len(wts) -> Times], q \in RemoteAnswers,
          k \in 0..Len(wts) :
          LET f == IF k = 0 THEN NoValue ELSE wts[k].path
              r == enrichedListWorktrees(o, T, q, f)
          IN
          /\ calls' = calls \o r.calls
          /\ worktrees' = r.val
          /\ local' = [local EXCEPT !.failed = f,
                                    !.err = IF o = "ok" THEN "none" ELSE o]
          /\ End(<<>>, -1, r.err)
    /\ UNCHANGED <<wts, fs, tree, refs, debug, startCwd, cwd, cmd, svcDir,
                   targetPath, caught, prompts>>

NextEnrich == InvokeEnrich \/ EnrichRun

\* The remote has the primary's branch and the third worktree's.
EnrichRefSets == {{Origin(WtBranch(1)), Origin(WtBranch(3))}}

InitEnrich ==
    /\ wts \in Repos
    /\ fs = FsOf(wts, {})
    /\ tree = [d \in WtDirs(wts) |->
                  IF d = MainPath THEN DirtyTree ELSE CleanTree]
    /\ refs \in EnrichRefSets
    /\ debug = FALSE
    /\ startCwd = MainPath
    /\ cmd = NoCmd
    /\ ProcessInit

SpecEnrich == InitEnrich /\ [][NextEnrich]_vars

\* listWorktrees has returned its records.
Enrichment == cmd.name = "listWorktrees" /\ pc = "done" /\ thrown = "none"

\* The gateway's getRemoteSyncStatus was called for the worktree at path p.
RemoteAsked(p) ==
    \E i \in 1..Len(calls) :
        calls[i].op = "getRemoteSyncStatus" /\ calls[i].dir = p

\* The place of the worktree at path p in git's listing.
ListedAt(p) == CHOOSE i \in 1..Len(wts) : wts[i].path = p

C20_WitnessTie ==
    /\ Enrichment /\ Len(worktrees) = 3
    /\ worktrees[1].path = wts[2].path
    /\ worktrees[2].path = wts[1].path
    /\ worktrees[3].path = wts[3].path
    /\ worktrees[2].lastCommitDate = worktrees[3].lastCommitDate

\* listWorktrees has ended, by a return or by an error.
EnrichEnded == cmd.name = "listWorktrees" /\ pc = "done"

\* The record of the worktree w in the result.
RecordOf(w) == worktrees[CHOOSE i \in 1..Len(worktrees) : worktrees[i].path = w.path]

\* The lookups for the worktree w failed: its directory is gone, or the
\* binary failed for it.
LookupsFailed(w) == w.prunable \/ w.path = local.failed

C21_WitnessListingFails ==
    EnrichEnded /\ local.err # "none" /\ thrown = "GitError"

----------------------------------------------------------------------------
(* setup and the installer's exit code *)

\* The code the process ends with: process.exit's argument; without it, 1
\* for an uncaught error and 0 for a handler that returned.
ProcessExitCode ==
    IF exitCode # -1 THEN exitCode
    ELSE IF thrown # "none" THEN 1 ELSE 0

\* setup has run the installer to its end.
InstallerExited ==
    /\ cmd.name = "setup" /\ pc = "done"
    /\ ~local.result.error /\ local.result.status >= 0

\* C22: setup ends with the exit code the installer ended with.
C22_ExitMirrorsInstaller ==
    InstallerExited => ProcessExitCode = local.result.status

\* C22, as the handler does it: after an installer that exits with 0 setup
\* returns without process.exit and the process ends with 0; after any other
\* exit code it logs the code and exits with 1.
C22_ExitOneOnFailure ==
    InstallerExited =>
        /\ local.result.status = 0 => exitCode = -1 /\ ProcessExitCode = 0
        /\ local.result.status # 0 => exitCode = 1 /\ caught = "GwtError"

\* The installer exits with 2, setup with 1.
C22_Witness ==
    InstallerExited /\ local.result.status = 2 /\ ProcessExitCode = 1

\* The installer exits with 0 and so does setup.
C22_WitnessSuccess ==
    InstallerExited /\ local.result.status = 0 /\ ProcessExitCode = 0

----------------------------------------------------------------------------
(* rebaseToBase: the failures of its steps *)

\* A handler that rebases has ended.
RebaseCommandDone == pc = "done" /\ cmd.name \in {"sync", "add"}

\* Some line of the output has level lvl and message msg.
Logged(lvl, msg) ==
    \E i \in 1..Len(output) : output[i].lvl = lvl /\ output[i].msg = msg

\* The stash pop was made and did not bring the changes back: the entry is
\* still in the stash.
PopFailed ==
    /\ CallsOf("stash pop") # {}
    /\ tree[TreeOf(svcDir)].stash > 0

\* C23: when the stash pop after a successful rebase fails, rebaseToBase
\* still returns: nothing is thrown, sync reports 'Sync completed!' and
\* createWorktree 'Auto-rebase completed', and the changes stay in the
\* stash.
C23_PopFailureSwallowed ==
    (RebaseCommandDone /\ PopFailed) =>
        /\ local.err = "none"
        /\ caught = "none" /\ thrown = "none" /\ exitCode = -1
        /\ cmd.name = "sync" => Logged("success", "Sync completed!")
        /\ cmd.name = "add" =>
              /\ Logged("success", "Auto-rebase completed")
              /\ ~Logged("warn", "Auto-rebase failed")
        /\ ~tree[TreeOf(svcDir)].dirty

\* sync on a dirty tree: the rebase went through, the pop failed.
C23_Witness ==
    /\ RebaseCommandDone /\ PopFailed /\ cmd.name = "sync"
    /\ local.rebased /\ Logged("success", "Sync completed!")

\* The same under add.
C23_WitnessAdd ==
    /\ RebaseCommandDone /\ PopFailed /\ cmd.name = "add"
    /\ local.rebased /\ Logged("success", "Auto-rebase completed")

\* sync has ended after the fetch or the rebase of rebaseToBase failed.
FetchOrRebaseFailed ==
    /\ pc = "done" /\ cmd.name = "sync"
    /\ local.rejected # "none"
    /\ calls[Len(calls)].op \in {"fetch", "rebase"}

\* sync reports the GitError: the error line, the advice, exit code 1.
SyncReportsGitError ==
    /\ local.err = "GitError" /\ caught = "GitError"
    /\ Logged("error", "GitError")
    /\ Logged("warn", "resolve conflicts manually")
    /\ exitCode = 1 /\ thrown = "none"

C24_WitnessFetch ==
    /\ FetchOrRebaseFailed /\ local.rejected = "Error"
    /\ calls[Len(calls)].op = "fetch" /\ exitCode = 1

----------------------------------------------------------------------------
(* createWorktree: new or existing branch, and the start point *)

\* The first of develop, master, main that exists.
ExpectedBase ==
    IF Exists(Develop) THEN Develop
    ELSE IF Exists(Master) THEN Master ELSE Main

\* The start point add's options ask for, for a new branch.
ExpectedStartPoint ==
    IF cmd.from = NoValue THEN Origin(ExpectedBase)
    ELSE IF cmd.from = HeadName THEN CheckedOut(cwd)
    ELSE cmd.from

AddCreated ==
    /\ cmd.name = "add" /\ local.worktreePath # NoValue
    /\ local.worktreePath \in DOMAIN tree

C25_WitnessBase ==
    /\ AddCreated /\ cmd.from = NoValue
    /\ tree[local.worktreePath].onto = Origin(Master)

\* A branch that is on origin only is attached.
C25_WitnessExisting ==
    /\ AddCreated /\ Origin(NewBranch) \in refs /\ local.branchName = NewBranch
    /\ \E i \in 1..Len(calls) : calls[i].op = "worktree add"
    /\ tree[local.worktreePath].onto = NoValue

\* No branch name: the current branch is looked up.
C25_WitnessCurrent ==
    /\ cmd.name = "add" /\ cmd.arg = NoValue /\ pc = "done"
    /\ Probes # <<>> /\ Probes[1] = CheckedOut(startCwd)

----------------------------------------------------------------------------
(* computeWorktreePath over branch names *)

\* The longest branch name.
MaxName == 3

NameChars == {"a", "b", "/", "-"}

\* A name git accepts for a branch: it neither starts with a slash or a
\* hyphen nor ends with a slash, and has no two slashes in a row.
IsBranchName(b) ==
    /\ b[1] \notin {"/", "-"}
    /\ b[Len(b)] # "/"
    /\ \A i \in 1..(Len(b) - 1) : ~(b[i] = "/" /\ b[i + 1] = "/")

BranchNames ==
    UNION {{b \in [1..n -> NameChars] : IsBranchName(b)} : n \in 1..MaxName}

\* computeWorktreePath(branchName) for a first branch name
InvokePath ==
    /\ pc = "start"
    /\ \E b \in BranchNames :
          /\ cmd' = [NoCmd EXCEPT !.name = "computeWorktreePath", !.arg = b]
          /\ targetPath' = computeWorktreePath(b, NoValue, cwd)
    /\ pc' = "run"
    /\ UNCHANGED <<wts, fs, tree, refs, debug, startCwd, cwd, svcDir,
                   worktrees, local, output, exitCode, thrown, caught, calls,
                   prompts>>

\* computeWorktreePath(branchName) for a second one, in the same directory
PathRun ==
    /\ pc = "run" /\ cmd.name = "computeWorktreePath"
    /\ \E b \in BranchNames :
          local' = [local EXCEPT !.branchName = b,
                                 !.worktreePath = computeWorktreePath(b, NoValue, cwd)]
    /\ pc' = "done"
    /\ UNCHANGED <<wts, fs, tree, refs, debug, startCwd, cwd, cmd, svcDir,
                   worktrees, targetPath, output, exitCode, thrown, caught,
                   calls, prompts>>

NextPath == InvokePath \/ PathRun

InitPath ==
    /\ wts = <<WtRecord(1, FALSE, FALSE)>>
    /\ fs = FsOf(wts, {})
    /\ tree = [d \in {MainPath} |-> CleanTree]
    /\ refs = {}
    /\ debug = FALSE
    /\ startCwd \in {MainPath, SubDir}
    /\ cmd = NoCmd
    /\ ProcessInit

SpecPath == InitPath /\ [][NextPath]_vars

\* Both paths are computed.
PathsComputed == cmd.name = "computeWorktreePath" /\ pc = "done"

\* C26: in one invoking directory and without a custom path, two distinct
\* branch names get two distinct paths, each ../<directory name>-<branch name
\* with '-' for every '/'>.
C26_DistinctBranchesDistinctPaths ==
    PathsComputed =>
        /\ targetPath = Join(Dirname(cwd), Basename(cwd) \o <<"-">>
                                              \o generateSafeName(cmd.arg))
        /\ cmd.arg # local.branchName => targetPath # local.worktreePath

\* What computeWorktreePath does of C26: two names get the same path exactly
\* when they are the same once every '/' is a '-'.
C26_AsImplemented ==
    PathsComputed =>
        (targetPath = local.worktreePath
            <=> generateSafeName(cmd.arg) = generateSafeName(local.branchName))

\* a/b and a-b get the same path.
C26_WitnessCollision ==
    /\ PathsComputed
    /\ cmd.arg = <<"a", "/", "b">> /\ local.branchName = <<"a", "-", "b">>
    /\ targetPath = local.worktreePath

----------------------------------------------------------------------------
(* copyEnvFiles *)

\* The lines a step has written.
NewLines == SubSeq(output', Len(output) + 1, Len(output'))

\* The step has written a line of level lvl and message msg.
NewlyLogged(lvl, msg) ==
    \E k \in 1..Len(NewLines) : NewLines[k].lvl = lvl /\ NewLines[k].msg = msg

\* C27: the copy of the environment files is best-effort: each of the three
\* files is handled on its own (one that is there is copied and reported, or
\* fails and gives a warning, whatever happened to the others), no file
\* copied is reported as information, and the step never fails createWorktree
\* and always hands over to the auto-rebase step.
C27_CopyEnvBestEffort ==
    [][pc = "add:copy" =>
          /\ pc' = "add:rebase"
          /\ thrown' = "none" /\ caught' = "none" /\ exitCode' = -1
          /\ \A i \in 1..Len(EnvFiles) :
                LET there == EnvPath(cwd, i) \in fs
                    made == EnvPath(local.worktreePath, i) \in fs'
                IN
                /\ NewlyLogged("info", "Copied " \o EnvFiles[i]) <=> (there /\ made)
                /\ NewlyLogged("warn", "Failed to copy " \o EnvFiles[i])
                      <=> (there /\ ~made)
          /\ NewlyLogged("info", "No .env files found to copy")
                <=> \A i \in 1..Len(EnvFiles) :
                       EnvPath(local.worktreePath, i) \notin fs']_vars

\* The copy is over.
CopyDone ==
    /\ cmd.name = "add" /\ cmd.env /\ local.worktreePath # NoValue
    /\ pc \notin {"run", "add:copy"}

\* The first file failed to copy and the second was copied; the rebase went
\* on from there.
C27_Witness ==
    /\ CopyDone /\ pc = "done" /\ cmd.rebase
    /\ EnvPath(startCwd, 1) \in fs /\ EnvPath(local.worktreePath, 1) \notin fs
    /\ EnvPath(local.worktreePath, 2) \in fs
    /\ Logged("warn", "Failed to copy " \o EnvFiles[1])
    /\ Logged("info", "Copied " \o EnvFiles[2])
    /\ CallsOf("fetch") # {}

\* No file was there; the information is given.
C27_WitnessNone ==
    /\ CopyDone
    /\ \A i \in 1..Len(EnvFiles) : EnvPath(startCwd, i) \notin fs
    /\ Logged("info", "No .env files found to copy")

----------------------------------------------------------------------------
(* createWorktree: the order of its steps *)

\* The positions of the gateway's worktree creation among the git commands.
AddCalls == CallsOf("worktree add") \cup CallsOf("worktree add -b")

\* A line copyEnvFiles writes.
IsCopyLine(l) ==
    \/ l.msg = "No .env files found to copy"
    \/ \E i \in 1..Len(EnvFiles) :
        l.msg \in {"Copied " \o EnvFiles[i], "Failed to copy " \o EnvFiles[i]}

CopyLinesAt == {i \in 1..Len(output) : IsCopyLine(output[i])}

\* The line createWorktree writes when it enters the auto-rebase step, before
\* it changes the working directory.
RebaseStepAt ==
    {i \in 1..Len(output) :
        output[i].lvl = "step" /\ output[i].msg = "Performing auto-rebase..."}

\* git has registered a worktree beyond those the repository started with.
WorktreeMade == \A r \in SmallRepos : Len(wts) > Len(r)

\* The positions of the branch-existence probes for the branch named b.
ExistenceProbes(b) ==
    {i \in CallsOf("rev-parse") : calls[i].arg \in {b, Origin(b)}}

\* C28: createWorktree resolves the branch name, checks that the branch
\* exists, has the gateway create the worktree, copies the environment files
\* and rebases, in this order, and never retries: the gateway's creation is
\* called at most once, and while no worktree was made (the resolution, the
\* check or the creation failed) nothing is copied, no rebase command is
\* issued, the working directory is not changed, and the command ends with
\* the error in the handler's catch block.
C28_FixedOrderNoRetry ==
    cmd.name = "add" =>
        /\ Cardinality(AddCalls) <= 1
        /\ (cmd.arg = NoValue /\ calls # <<>>) => calls[1].op = "rev-parse HEAD"
        /\ (cmd.arg # NoValue /\ calls # <<>>) =>
               /\ calls[1].op = "rev-parse" /\ calls[1].arg = cmd.arg
               /\ Before(ExistenceProbes(cmd.arg), AddCalls)
        /\ Before(CallsOf("rev-parse HEAD"), AddCalls)
        /\ Before(AddCalls, RebaseCalls)
        /\ Before(CopyLinesAt, RebaseStepAt)
        /\ pc = "add:copy" =>
               WorktreeMade /\ CopyLinesAt = {} /\ RebaseStepAt = {}
        /\ pc = "add:rebase" => WorktreeMade /\ RebaseStepAt = {}
        /\ ~WorktreeMade =>
               /\ CopyLinesAt = {} /\ RebaseStepAt = {} /\ RebaseCalls = {}
               /\ cwd = startCwd
               /\ pc = "done" => caught # "none"

\* The gateway's creation failed for a new branch with the copy and the
\* rebase asked for: the command ended with the GitError after the one call.
C28_Witness ==
    /\ cmd.name = "add" /\ pc = "done" /\ cmd.arg = NewBranch
    /\ cmd.env /\ cmd.rebase
    /\ Cardinality(AddCalls) = 1 /\ ~WorktreeMade
    /\ caught = "GitError" /\ exitCode = 1

\* All five steps ran: the name was resolved and probed, the worktree made,
\* a file copied and the rebase commands issued after the creation.
C28_WitnessAllSteps ==
    /\ cmd.name = "add" /\ pc = "done" /\ WorktreeMade
    /\ ExistenceProbes(cmd.arg) # {} /\ Cardinality(AddCalls) = 1
    /\ \E i \in CopyLinesAt : output[i].lvl = "info" /\ output[i].msg # "No .env files found to copy"
    /\ CallsOf("rebase") # {}

\* The name could not be resolved: nothing but the one question was asked.
C28_WitnessResolutionFails ==
    /\ cmd.name = "add" /\ pc = "done" /\ cmd.arg = NoValue
    /\ Len(calls) = 1 /\ caught # "none" /\ cmd.env /\ cmd.rebase

----------------------------------------------------------------------------
(* rebaseToBase: the stash after a failed fetch or rebase *)

\* The stash push of rebaseToBase was made and, after it, the fetch or the
\* rebase was rejected.
StashedRunFailed ==
    /\ cmd.name = "sync" /\ pc \in {"rebase:end", "done"}
    /\ CallsOf(StashPush) # {} /\ CallsOf("fetch") # {}
    /\ local.rejected # "none"

\* The stash is left as the push made it: no pop was issued, the changes are
\* in the stash and not in the working tree.
StashKept ==
    /\ CallsOf("stash pop") = {}
    /\ tree[TreeOf(svcDir)].stash > 0 /\ ~tree[TreeOf(svcDir)].dirty

\* A stash pop is issued only after a fetch and a rebase that succeeded.
PopOnlyAfterSuccess ==
    CallsOf("stash pop") # {} =>
        /\ local.rebased /\ local.rejected = "none"
        /\ CallsOf("fetch") # {} /\ CallsOf("rebase") # {}
        /\ Before(CallsOf("rebase"), CallsOf("stash pop"))
        /\ tree[TreeOf(svcDir)].onto = Origin(local.targetBase)

C29_WitnessNonError ==
    /\ StashedRunFailed /\ pc = "done" /\ CallsOf("rebase") = {}
    /\ local.rejected = "NonError" /\ thrown = "NonError" /\ StashKept

\* The pop was issued after a successful rebase.
C29_WitnessPop ==
    /\ cmd.name = "sync" /\ pc = "done" /\ CallsOf("stash pop") # {}
    /\ local.rebased

----------------------------------------------------------------------------
(* switch: what reaches the output stream *)

\* The path switch must write for its argument: a listed path first, then
\* an existing absolute directory, then the path of the worktree that has
\* the branch; NoValue when the argument is none of them.
ExpectedTarget ==
    LET i == FindByBranch(TheListing, cmd.arg) IN
    IF \E k \in 1..Len(TheListing) : TheListing[k].path = cmd.arg THEN cmd.arg
    ELSE IF StartsWithSlash(cmd.arg) /\ existsSync(cmd.arg) /\ isDirectory(cmd.arg)
    THEN cmd.arg
    ELSE IF i # 0 THEN TheListing[i].path
    ELSE NoValue

\* With an argument, what is written is the one path the precedence gives.
SwitchWritesTarget ==
    (cmd.name = "switch" /\ cmd.arg # NoValue /\ stdout # <<>>) =>
        /\ ExpectedTarget # NoValue
        /\ stdout = consoleLog(ExpectedTarget)

\* The worktree the command runs in: the one whose directory holds the
\* working directory.
CurrentWorktree == TreeOf(startCwd)

\* C30: with an argument, a path switch writes to the output stream is the
\* path of a listed worktree (matched by path, or by branch) or the argument
\* itself when it is an existing absolute directory, a path match going
\* before the directory check and the directory check before a branch
\* match; without an argument the choices never include the current worktree
\* and with no other worktree nothing is written to the output stream.
C30_SwitchOutput ==
    /\ SwitchWritesTarget
    /\ (cmd.name = "switch" /\ cmd.arg = NoValue) =>
           /\ \A i \in 1..Len(Lists) : \A j \in 1..Len(Lists[i].choices) :
                  Lists[i].choices[j] # CurrentWorktree
           /\ (\A k \in 1..Len(wts) : wts[k].path = CurrentWorktree)
                  => stdout = <<>>

\* C30 as the filter on isCurrent does it: the choices are the listed paths
\* other than the working directory itself, and nothing is written when
\* every listed path is the working directory.
C30_AsImplemented ==
    /\ SwitchWritesTarget
    /\ (cmd.name = "switch" /\ cmd.arg = NoValue) =>
           /\ \A i \in 1..Len(Lists) : \A j \in 1..Len(Lists[i].choices) :
                  Lists[i].choices[j] # startCwd
           /\ (\A k \in 1..Len(wts) : wts[k].path = startCwd)
                  => stdout = <<>>

\* switch ran without an argument in a subdirectory of the only worktree,
\* offered that worktree and wrote its path.
C30_WitnessCurrentOffered ==
    /\ cmd.name = "switch" /\ cmd.arg = NoValue /\ pc = "done"
    /\ startCwd = SubDir /\ Len(wts) = 1
    /\ Len(Lists) = 1 /\ Lists[1].choices = <<MainPath>>
    /\ stdout = consoleLog(MainPath)

\* The argument is a directory entry named like a branch: the branch match
\* decides, since the entry is no absolute path.
C30_WitnessBranch ==
    /\ cmd.name = "switch" /\ pc = "done" /\ cmd.arg = WtBranch(2)
    /\ existsSync(cmd.arg) /\ stdout = consoleLog(WtPath(2))

\* The argument is an existing absolute directory that is no worktree.
C30_WitnessDirectory ==
    /\ cmd.name = "switch" /\ pc = "done" /\ cmd.arg = OtherDir
    /\ stdout = consoleLog(OtherDir)

====
